---- MODULE Spec2Model ----
(***************************************************************************)
(* Verification model of the autoperm repository: the Perm class           *)
(* (src/src/perm.py, and the earlier letter-only class of src/perm.py) and *)
(* the autoperm cipher generators (src/src/autoperm.py, src/autoperm.py,   *)
(* src/perm.py).                                                           *)
(*                                                                         *)
(* Symbols are integers.  Letter number i stands for the i-th letter of    *)
(* string.ascii_uppercase (0 = "A", 1 = "B", ...).  None and Punct are two *)
(* symbols that are not letters.  A Perm's `mapping` dict is a function    *)
(* whose DOMAIN is the dict's key set.                                     *)
(***************************************************************************)
EXTENDS Integers, Sequences, FiniteSets, TLC

\* ------------------------------------------------------------------------
\* Bounds of the model
\* ------------------------------------------------------------------------
\* largest |n| used for g ** n
MaxExp == 8
\* longest letter stream drawn exhaustively
MaxLen == 3
\* longest sequence passed to from_cycle, and most concatenated copies of a
\* sequence passed to it
MaxCycle == 3
MaxCopies == 3

\* the letters A..D of string.ascii_uppercase
Alphabet == 0 .. 3
\* Python's None (the fillvalue of chunk)
None == -1
\* some symbol that is not a letter, e.g. "?"
Punct == -2
Symbols == Alphabet \cup {None, Punct}

\* the empty dict
EmptyMapping == [a \in {} |-> a]

Range(f) == {f[a] : a \in DOMAIN f}

\* ------------------------------------------------------------------------
\* class Perm of src/src/perm.py
\* ------------------------------------------------------------------------
\* Perm.__init__: stores the mapping as given, no validation
Perm(mapping) == mapping

\* Perm.is_permutation
\* is_permutation with <= in place of == : the values lie among the keys
is_permutation_subset(self) == Range(self) \subseteq DOMAIN self

is_permutation(self) == DOMAIN self = Range(self)

\* every dict over Alphabet that is a bijection of its key set
ValidPerms ==
    UNION {{m \in [D -> D] : Range(m) = D} : D \in SUBSET Alphabet}

\* Perm.__getitem__: self.mapping.get(item, item)
getitem(self, item) == IF item \in DOMAIN self THEN self[item] ELSE item

\* dict assignment mapping[a] = b
SetItem(mapping, a, b) ==
    [x \in DOMAIN mapping \cup {a} |-> IF x = a THEN b ELSE mapping[x]]

\* Perm.from_cycle: the loop over range(len(cycle)), i is 0-based
RECURSIVE from_cycle_loop(_, _, _)
from_cycle_loop(cycle, i, mapping) ==
    IF i >= Len(cycle) THEN mapping
    ELSE from_cycle_loop(cycle, i + 1,
            SetItem(mapping, cycle[i + 1], cycle[((i + 1) % Len(cycle)) + 1]))

\* from_cycle with a and b swapped: each symbol is mapped to its predecessor
RECURSIVE from_cycle_reversed_loop(_, _, _)
from_cycle_reversed_loop(cycle, i, mapping) ==
    IF i >= Len(cycle) THEN mapping
    ELSE from_cycle_reversed_loop(cycle, i + 1,
            SetItem(mapping, cycle[((i + 1) % Len(cycle)) + 1], cycle[i + 1]))

from_cycle_reversed(cycle) ==
    Perm(from_cycle_reversed_loop(cycle, 0, EmptyMapping))

from_cycle(cycle) == Perm(from_cycle_loop(cycle, 0, EmptyMapping))

\* inverse with keys and values not exchanged: {k: v for k, v in ...}
inverse_not_swapped(self) == Perm(self)

\* Perm.inverse: {v: k for k, v in self.mapping.items()}
\* (for an injective mapping each value has exactly one key)
inverse(self) ==
    Perm([v \in Range(self) |-> CHOOSE k \in DOMAIN self : self[k] = v])

\* __mul__ applying self first and other second: other[self[a]]
mul_reversed(self, other) ==
    Perm([a \in DOMAIN self \cup DOMAIN other |->
            getitem(other, getitem(self, a))])

\* __mul__ iterating over the keys of self only
mul_self_keys(self, other) ==
    Perm([a \in DOMAIN self |-> getitem(self, getitem(other, a))])

\* Perm.__mul__
mul(self, other) ==
    Perm([a \in DOMAIN self \cup DOMAIN other |->
            getitem(self, getitem(other, a))])

\* __pow__ without the extra factor for an odd exponent
RECURSIVE pow_even_only(_, _)
pow_even_only(self, n) ==
    IF n < 0 THEN pow_even_only(inverse(self), -n)
    ELSE IF n = 0 THEN Perm(EmptyMapping)
    ELSE IF n = 1 THEN self
    ELSE IF n = 2 THEN mul(self, self)
    ELSE pow_even_only(pow_even_only(self, n \div 2), 2)

\* Perm.__pow__
RECURSIVE pow(_, _)
pow(self, n) ==
    IF n < 0 THEN pow(inverse(self), -n)
    ELSE IF n = 0 THEN Perm(EmptyMapping)
    ELSE IF n = 1 THEN self
    ELSE IF n = 2 THEN mul(self, self)
    ELSE LET exp_by_sqr == pow(pow(self, n \div 2), 2)
         IN  IF n % 2 = 1 THEN mul(self, exp_by_sqr) ELSE exp_by_sqr

\* __eq__ checking the items of self only
eq_one_sided(self, other) ==
    \A a \in DOMAIN self : self[a] = getitem(other, a)

\* Perm.__eq__
eq(self, other) ==
    /\ \A a \in DOMAIN self : self[a] = getitem(other, a)
    /\ \A a \in DOMAIN other : other[a] = getitem(self, a)

\* ------------------------------------------------------------------------
\* class Perm of src/perm.py (letters only, self.map is a total dict over
\* string.ascii_uppercase)
\* ------------------------------------------------------------------------
\* the value standing for a raised KeyError
KeyError == -3

\* number of occurrences of a in cycle (str.count)
count(cycle, a) == Cardinality({i \in 1 .. Len(cycle) : cycle[i] = a})

\* Perm.__init__(cycle) of src/perm.py: the identity on the letters, then
\* map[cycle[i]] = cycle[i + 1] with wrap-around; the assert requires every
\* letter of cycle to occur once
perm_py_init_asserts(cycle) ==
    \A i \in 1 .. Len(cycle) : count(cycle, cycle[i]) = 1

RECURSIVE perm_py_init_loop(_, _, _)
perm_py_init_loop(cycle, i, map) ==
    IF i >= Len(cycle) THEN map
    ELSE perm_py_init_loop(cycle, i + 1,
            SetItem(map, cycle[i + 1], cycle[((i + 1) % Len(cycle)) + 1]))

perm_py_init(cycle) == perm_py_init_loop(cycle, 0, [a \in Alphabet |-> a])

\* Perm.__call__ of src/perm.py: self.map[char], a KeyError for a missing key
perm_py_call(self, char) ==
    IF char \in DOMAIN self THEN self[char] ELSE KeyError

\* Perm.__mul__ of src/perm.py
perm_py_mul(self, perm) ==
    [a \in Alphabet |-> perm_py_call(self, perm_py_call(perm, a))]

\* Perm.invert of src/perm.py: {self(a): a for a in string.ascii_uppercase}
perm_py_invert(self) ==
    [v \in {perm_py_call(self, a) : a \in Alphabet} |->
        CHOOSE a \in Alphabet : perm_py_call(self, a) = v]

\* the dicts the class of src/perm.py builds: bijections of all the letters
PermPyPerms == {m \in [Alphabet -> Alphabet] : Range(m) = Alphabet}

\* Perm.disjoint_cycle_decomposition of src/perm.py, inner while loop
RECURSIVE perm_py_dcd_while(_, _, _, _)
perm_py_dcd_while(self, a, b, out) ==
    IF b = a THEN out
    ELSE perm_py_dcd_while(self, a, perm_py_call(self, b), Append(out, b))

\* Perm.disjoint_cycle_decomposition of src/perm.py, for a in ascii_uppercase
RECURSIVE perm_py_dcd_for(_, _, _, _)
perm_py_dcd_for(self, a, done, output) ==
    IF a \notin Alphabet THEN output
    ELSE IF a \in done THEN perm_py_dcd_for(self, a + 1, done, output)
    ELSE LET out == perm_py_dcd_while(self, a, perm_py_call(self, a), <<a>>)
         IN  perm_py_dcd_for(self, a + 1,
                done \cup {out[i] : i \in 1 .. Len(out)},
                Append(output, out))

perm_py_disjoint_cycle_decomposition(self) ==
    perm_py_dcd_for(self, 0, {}, <<>>)

\* ------------------------------------------------------------------------
\* State
\* ------------------------------------------------------------------------
VARIABLES
    \* Perm calls: the receiver, the other operand, the call made
    \* (also the position inside disjoint_cycle_decomposition), its
    \* integer or symbol argument, and what it returned
    g, h, op, arg, res, val, flag,
    \* locals of disjoint_cycle_decomposition (b is dcd_b, a is dcd_cycle[1])
    dcd_remaining, dcd_decomposition, dcd_cycle, dcd_b,
    \* the characters __str__ returned
    rendered,
    \* the sequence passed to from_cycle or to the constructor of src/perm.py
    cycle,
    \* cipher: the caller's keys and letter stream
    key_sigma, key_tau, in_text,
    \* cipher: locals of the encipher and decipher functions
    sigma, tau, plaintext, ciphertext,
    sigma_inverse, tau_inverse, decrypted,
    \* cipher: position of the running function, pairs consumed so far
    pc, pos,
    \* streamer: the transform run, the characters of the input file, how
    \* many of them the second tee iterator has read, the letters the
    \* transform yields, how many of them the for loop has taken, the
    \* characters written to the output file, and the position of the call
    func, in_file, in_file_2, output, c_pos, out_file, spc,
    \* streamer: the block, width and compare arguments (<<>> is None), the
    \* lines and plaintext lines of strip mode and how many are written
    block, width, compare, lines, plain_lines, line_pos,
    \* integration test: the text first written to the plaintext file
    plain_file,
    \* streamer: the lowercase keyword argument of the call (<<>> when it
    \* is not passed)
    lowercase,
    \* the key given to permutation_from_key
    key,
    \* the Namespace of the command line arguments
    args,
    \* exception raised by the last call ("none" when it returned)
    err

perm_vars == <<g, h, op, arg, res, val, flag,
               dcd_remaining, dcd_decomposition, dcd_cycle, dcd_b, rendered, cycle>>
cipher_vars == <<key_sigma, key_tau, in_text, sigma, tau, plaintext,
                 ciphertext, sigma_inverse, tau_inverse, decrypted, pc, pos>>
stream_vars == <<func, in_file, in_file_2, output, c_pos, out_file, spc,
                 block, width, compare, lines, plain_lines, line_pos,
                 plain_file, lowercase, key, args>>
vars == <<perm_vars, cipher_vars, stream_vars, err>>

\* values of the variables a specification does not use
\* the argparse Namespace of a program that was not started from the command
\* line
NoArgs ==
    [preserve |-> FALSE, decrypt |-> FALSE, keys |-> <<>>, block |-> <<>>,
     width |-> <<>>, compare |-> <<>>, lowercase |-> <<>>]

PermIdle ==
    /\ g = EmptyMapping /\ h = EmptyMapping /\ op = "idle" /\ arg = 0
    /\ res = EmptyMapping /\ val = None /\ flag = FALSE
    /\ dcd_remaining = {} /\ dcd_decomposition = <<>>
    /\ dcd_cycle = <<>> /\ dcd_b = None /\ cycle = <<>>
    /\ rendered = <<>>

CipherIdle ==
    /\ key_sigma = EmptyMapping /\ key_tau = EmptyMapping /\ in_text = <<>>
    /\ sigma = EmptyMapping /\ tau = EmptyMapping
    /\ plaintext = <<>> /\ ciphertext = <<>>
    /\ sigma_inverse = EmptyMapping /\ tau_inverse = EmptyMapping
    /\ decrypted = <<>> /\ pc = "idle" /\ pos = 0

StreamIdle ==
    /\ func = "none" /\ in_file = <<>> /\ in_file_2 = 0
    /\ output = <<>> /\ c_pos = 0 /\ out_file = <<>> /\ spc = "idle"
    /\ block = <<>> /\ width = <<>> /\ compare = FALSE
    /\ lines = <<>> /\ plain_lines = <<>> /\ line_pos = 0
    /\ plain_file = <<>>
    /\ lowercase = <<>> /\ key = <<>> /\ args = NoArgs

\* ------------------------------------------------------------------------
\* chunk (src/src/cipher_streamer.py): the list of tuples zip_longest yields
\* ------------------------------------------------------------------------
\* a chunk of fill values for an iterable without items
chunk_at_least_one(iterable, size, fillvalue) ==
    [k \in 1 .. (IF iterable = <<>> THEN 1
                 ELSE (Len(iterable) + size - 1) \div size) |->
        [j \in 1 .. size |->
            IF (k - 1) * size + j <= Len(iterable)
            THEN iterable[(k - 1) * size + j]
            ELSE fillvalue]]

chunk(iterable, size, fillvalue) ==
    [k \in 1 .. ((Len(iterable) + size - 1) \div size) |->
        [j \in 1 .. size |->
            IF (k - 1) * size + j <= Len(iterable)
            THEN iterable[(k - 1) * size + j]
            ELSE fillvalue]]

\* all letter streams of length at most n
RECURSIVE Streams(_)
Streams(n) ==
    IF n = 0 THEN {<<>>}
    ELSE LET shorter == Streams(n - 1)
         IN  shorter \cup {Append(s, l) : s \in {t \in shorter : Len(t) = n - 1},
                                          l \in Alphabet}

\* keys whose explicit domain lies within the letters A..C (every letter D is
\* then outside the explicit domain), and the keys of test_autoperm_encipher
KeyPerms == {m \in ValidPerms : DOMAIN m \subseteq 0 .. 2}
ScenarioSigma == from_cycle(<<0, 1, 2, 3>>)
ScenarioTau == mul(from_cycle(<<0, 1>>), from_cycle(<<2, 3>>))
ScenarioTexts == {<<0, 1, 2, 3, 0, 1>>, <<0, 1, 2, 3, 0>>}

\* ------------------------------------------------------------------------
\* autoperm_encipher / autoperm_decipher (src/src/autoperm.py), one action
\* per iteration of the generator's for loop
\* ------------------------------------------------------------------------
\* the caller passes its keys and a letter stream to autoperm_encipher.func
InitCipher ==
    /\ PermIdle
    /\ StreamIdle
    /\ \/ /\ key_sigma \in KeyPerms
          /\ key_tau \in KeyPerms
          /\ in_text \in Streams(MaxLen)
       \/ /\ key_sigma = ScenarioSigma
          /\ key_tau = ScenarioTau
          /\ in_text \in ScenarioTexts
    /\ sigma = key_sigma
    /\ tau = key_tau
    /\ plaintext = in_text
    /\ ciphertext = <<>>
    /\ sigma_inverse = EmptyMapping
    /\ tau_inverse = EmptyMapping
    /\ decrypted = <<>>
    /\ pc = "encipher"
    /\ pos = 0
    /\ err = "none"

\* the else branch with an in-place sigma *= transposition: the object the
\* caller passed is updated along with the local name
autoperm_encipher_pair_in_place ==
    /\ pc = "encipher"
    /\ pos < Len(chunk(plaintext, 2, None))
    /\ LET a == chunk(plaintext, 2, None)[pos + 1][1]
           b == chunk(plaintext, 2, None)[pos + 1][2]
           transposition == from_cycle(<<a, b>>)
       IN  /\ b # None
           /\ ciphertext' = ciphertext \o <<getitem(sigma, a), getitem(tau, b)>>
           /\ sigma' = mul(sigma, transposition)
           /\ tau' = mul(tau, transposition)
           /\ key_sigma' = mul(sigma, transposition)
           /\ key_tau' = mul(tau, transposition)
    /\ pos' = pos + 1
    /\ UNCHANGED <<perm_vars, stream_vars, in_text, plaintext,
                   sigma_inverse, tau_inverse, decrypted, pc, err>>

\* the else branch without tau *= transposition
autoperm_encipher_pair_sigma_only ==
    /\ pc = "encipher"
    /\ pos < Len(chunk(plaintext, 2, None))
    /\ LET a == chunk(plaintext, 2, None)[pos + 1][1]
           b == chunk(plaintext, 2, None)[pos + 1][2]
           transposition == from_cycle(<<a, b>>)
       IN  /\ b # None
           /\ ciphertext' = ciphertext \o <<getitem(sigma, a), getitem(tau, b)>>
           /\ sigma' = mul(sigma, transposition)
           /\ tau' = tau
    /\ pos' = pos + 1
    /\ UNCHANGED <<perm_vars, stream_vars, key_sigma, key_tau, in_text,
                   plaintext,
                   sigma_inverse, tau_inverse, decrypted, pc, err>>

\* for a, b in chunk(plaintext, 2): the else branch (b is a letter)
autoperm_encipher_pair ==
    /\ pc = "encipher"
    /\ pos < Len(chunk(plaintext, 2, None))
    /\ LET a == chunk(plaintext, 2, None)[pos + 1][1]
           b == chunk(plaintext, 2, None)[pos + 1][2]
           transposition == from_cycle(<<a, b>>)
       IN  /\ b # None
           /\ ciphertext' = ciphertext \o <<getitem(sigma, a), getitem(tau, b)>>
           /\ sigma' = mul(sigma, transposition)
           /\ tau' = mul(tau, transposition)
    /\ pos' = pos + 1
    /\ UNCHANGED <<perm_vars, stream_vars, key_sigma, key_tau, in_text,
                   plaintext,
                   sigma_inverse, tau_inverse, decrypted, pc, err>>

\* for a, b in chunk(plaintext, 2): the branch b is None
autoperm_encipher_odd ==
    /\ pc = "encipher"
    /\ pos < Len(chunk(plaintext, 2, None))
    /\ LET a == chunk(plaintext, 2, None)[pos + 1][1]
           b == chunk(plaintext, 2, None)[pos + 1][2]
       IN  /\ b = None
           /\ ciphertext' = Append(ciphertext, getitem(sigma, a))
    /\ pos' = pos + 1
    /\ UNCHANGED <<perm_vars, stream_vars, key_sigma, key_tau, in_text,
                   sigma, tau,
                   plaintext, sigma_inverse, tau_inverse, decrypted, pc, err>>

\* chunk is exhausted: the generator returns
autoperm_encipher_stop ==
    /\ pc = "encipher"
    /\ pos = Len(chunk(plaintext, 2, None))
    /\ pc' = "enciphered"
    /\ UNCHANGED <<perm_vars, stream_vars, key_sigma, key_tau, in_text,
                   sigma, tau,
                   plaintext, ciphertext, sigma_inverse, tau_inverse,
                   decrypted, pos, err>>

\* autoperm_decipher.func(ciphertext, sigma, tau) with the caller's keys:
\* the two inverse() calls before the loop
autoperm_decipher_start ==
    /\ pc = "enciphered"
    /\ sigma_inverse' = inverse(key_sigma)
    /\ tau_inverse' = inverse(key_tau)
    /\ pc' = "decipher"
    /\ pos' = 0
    /\ UNCHANGED <<perm_vars, stream_vars, key_sigma, key_tau, in_text,
                   sigma, tau,
                   plaintext, ciphertext, decrypted, err>>

\* the else branch with the transposition composed on the right
autoperm_decipher_pair_on_the_right ==
    /\ pc = "decipher"
    /\ pos < Len(chunk(ciphertext, 2, None))
    /\ LET a == chunk(ciphertext, 2, None)[pos + 1][1]
           b == chunk(ciphertext, 2, None)[pos + 1][2]
           a_plain == getitem(sigma_inverse, a)
           b_plain == getitem(tau_inverse, b)
           transposition == from_cycle(<<a_plain, b_plain>>)
       IN  /\ b # None
           /\ decrypted' = decrypted \o <<a_plain, b_plain>>
           /\ sigma_inverse' = mul(sigma_inverse, transposition)
           /\ tau_inverse' = mul(tau_inverse, transposition)
    /\ pos' = pos + 1
    /\ UNCHANGED <<perm_vars, stream_vars, key_sigma, key_tau, in_text,
                   sigma, tau,
                   plaintext, ciphertext, pc, err>>

\* for a, b in chunk(ciphertext, 2): the else branch
autoperm_decipher_pair ==
    /\ pc = "decipher"
    /\ pos < Len(chunk(ciphertext, 2, None))
    /\ LET a == chunk(ciphertext, 2, None)[pos + 1][1]
           b == chunk(ciphertext, 2, None)[pos + 1][2]
           a_plain == getitem(sigma_inverse, a)
           b_plain == getitem(tau_inverse, b)
           transposition == from_cycle(<<a_plain, b_plain>>)
       IN  /\ b # None
           /\ decrypted' = decrypted \o <<a_plain, b_plain>>
           /\ sigma_inverse' = mul(transposition, sigma_inverse)
           /\ tau_inverse' = mul(transposition, tau_inverse)
    /\ pos' = pos + 1
    /\ UNCHANGED <<perm_vars, stream_vars, key_sigma, key_tau, in_text,
                   sigma, tau,
                   plaintext, ciphertext, pc, err>>

\* for a, b in chunk(ciphertext, 2): the branch b is None,
\* src/src/autoperm.py: yield sigma_inverse[a]
autoperm_decipher_odd ==
    /\ pc = "decipher"
    /\ pos < Len(chunk(ciphertext, 2, None))
    /\ LET a == chunk(ciphertext, 2, None)[pos + 1][1]
           b == chunk(ciphertext, 2, None)[pos + 1][2]
       IN  /\ b = None
           /\ decrypted' = Append(decrypted, getitem(sigma_inverse, a))
    /\ pos' = pos + 1
    /\ UNCHANGED <<perm_vars, stream_vars, key_sigma, key_tau, in_text,
                   sigma, tau,
                   plaintext, ciphertext, sigma_inverse, tau_inverse, pc, err>>

\* the same branch in src/autoperm.py: yield sigma_inverse[b]
autoperm_py_decipher_odd ==
    /\ pc = "decipher"
    /\ pos < Len(chunk(ciphertext, 2, None))
    /\ LET a == chunk(ciphertext, 2, None)[pos + 1][1]
           b == chunk(ciphertext, 2, None)[pos + 1][2]
       IN  /\ b = None
           /\ decrypted' = Append(decrypted, getitem(sigma_inverse, b))
    /\ pos' = pos + 1
    /\ UNCHANGED <<perm_vars, stream_vars, key_sigma, key_tau, in_text,
                   sigma, tau,
                   plaintext, ciphertext, sigma_inverse, tau_inverse, pc, err>>

\* chunk is exhausted: the generator returns
autoperm_decipher_stop ==
    /\ pc = "decipher"
    /\ pos = Len(chunk(ciphertext, 2, None))
    /\ pc' = "deciphered"
    /\ UNCHANGED <<perm_vars, stream_vars, key_sigma, key_tau, in_text,
                   sigma, tau,
                   plaintext, ciphertext, sigma_inverse, tau_inverse,
                   decrypted, pos, err>>

\* the cipher of src/src/autoperm.py
NextCipher ==
    \/ autoperm_encipher_pair
    \/ autoperm_encipher_odd
    \/ autoperm_encipher_stop
    \/ autoperm_decipher_start
    \/ autoperm_decipher_pair
    \/ autoperm_decipher_odd
    \/ autoperm_decipher_stop

SpecCipher == InitCipher /\ [][NextCipher]_vars

\* the cipher of src/autoperm.py (the earlier single-file version)
NextAutopermPy ==
    \/ autoperm_encipher_pair
    \/ autoperm_encipher_odd
    \/ autoperm_encipher_stop
    \/ autoperm_decipher_start
    \/ autoperm_decipher_pair
    \/ autoperm_py_decipher_odd
    \/ autoperm_decipher_stop

SpecAutopermPy == InitCipher /\ [][NextAutopermPy]_vars

\* ------------------------------------------------------------------------
\* auto_perm_encipher / auto_perm_decipher (src/perm.py)
\* ------------------------------------------------------------------------
\* the letter "X" that src/perm.py appends to an odd plaintext; in the
\* four-letter alphabet it is the last letter
X == 3

\* str.isupper on a stream of uppercase letters: false only when empty
isupper(text) == Len(text) >= 1

InitPermPy ==
    /\ PermIdle
    /\ StreamIdle
    /\ key_sigma \in PermPyPerms
    /\ key_tau \in PermPyPerms
    /\ in_text \in Streams(MaxLen)
    /\ sigma = key_sigma
    /\ tau = key_tau
    /\ plaintext = in_text
    /\ ciphertext = <<>>
    /\ sigma_inverse = EmptyMapping
    /\ tau_inverse = EmptyMapping
    /\ decrypted = <<>>
    /\ pc = "call_encipher"
    /\ pos = 0
    /\ err = "none"

\* auto_perm_encipher up to the loop: the assert and the padding
auto_perm_encipher_begin ==
    /\ pc = "call_encipher"
    /\ IF ~isupper(plaintext)
       THEN /\ err' = "AssertionError"
            /\ pc' = "raised"
            /\ UNCHANGED plaintext
       ELSE /\ plaintext' = IF Len(plaintext) % 2 = 1
                            THEN Append(plaintext, X)
                            ELSE plaintext
            /\ pc' = "encipher"
            /\ UNCHANGED err
    /\ UNCHANGED <<perm_vars, stream_vars, key_sigma, key_tau, in_text,
                   sigma, tau,
                   ciphertext, sigma_inverse, tau_inverse, decrypted, pos>>

\* one iteration of for i in range(len(plaintext) // 2)
auto_perm_encipher_loop ==
    /\ pc = "encipher"
    /\ pos < Len(plaintext) \div 2
    /\ LET a == plaintext[2 * pos + 1]
           b == plaintext[2 * pos + 2]
           transposition == perm_py_init(<<a, b>>)
       IN  /\ ciphertext' = ciphertext \o
                   <<perm_py_call(sigma, a), perm_py_call(tau, b)>>
           /\ IF a # b
              THEN /\ sigma' = perm_py_mul(sigma, transposition)
                   /\ tau' = perm_py_mul(tau, transposition)
              ELSE UNCHANGED <<sigma, tau>>
    /\ pos' = pos + 1
    /\ UNCHANGED <<perm_vars, stream_vars, key_sigma, key_tau, in_text,
                   plaintext,
                   sigma_inverse, tau_inverse, decrypted, pc, err>>

\* return ciphertext
auto_perm_encipher_return ==
    /\ pc = "encipher"
    /\ pos = Len(plaintext) \div 2
    /\ pc' = "enciphered"
    /\ UNCHANGED <<perm_vars, stream_vars, key_sigma, key_tau, in_text,
                   sigma, tau,
                   plaintext, ciphertext, sigma_inverse, tau_inverse,
                   decrypted, pos, err>>

\* auto_perm_decipher(sigma, tau, ciphertext) with the caller's keys, up to
\* the loop: the two asserts and the two invert() calls
auto_perm_decipher_begin ==
    /\ pc = "enciphered"
    /\ IF ~isupper(ciphertext) \/ Len(ciphertext) % 2 # 0
       THEN /\ err' = "AssertionError"
            /\ pc' = "raised"
            /\ UNCHANGED <<sigma_inverse, tau_inverse>>
       ELSE /\ sigma_inverse' = perm_py_invert(key_sigma)
            /\ tau_inverse' = perm_py_invert(key_tau)
            /\ pc' = "decipher"
            /\ UNCHANGED err
    /\ pos' = 0
    /\ UNCHANGED <<perm_vars, stream_vars, key_sigma, key_tau, in_text,
                   sigma, tau,
                   plaintext, ciphertext, decrypted>>

\* one iteration of for i in range(len(ciphertext) // 2)
auto_perm_decipher_loop ==
    /\ pc = "decipher"
    /\ pos < Len(ciphertext) \div 2
    /\ LET a == ciphertext[2 * pos + 1]
           b == ciphertext[2 * pos + 2]
           a_plain == perm_py_call(sigma_inverse, a)
           b_plain == perm_py_call(tau_inverse, b)
           transposition == perm_py_init(<<a_plain, b_plain>>)
       IN  /\ decrypted' = decrypted \o <<a_plain, b_plain>>
           /\ IF a_plain # b_plain
              THEN /\ sigma_inverse' = perm_py_mul(transposition, sigma_inverse)
                   /\ tau_inverse' = perm_py_mul(transposition, tau_inverse)
              ELSE UNCHANGED <<sigma_inverse, tau_inverse>>
    /\ pos' = pos + 1
    /\ UNCHANGED <<perm_vars, stream_vars, key_sigma, key_tau, in_text,
                   sigma, tau,
                   plaintext, ciphertext, pc, err>>

\* return plaintext
auto_perm_decipher_return ==
    /\ pc = "decipher"
    /\ pos = Len(ciphertext) \div 2
    /\ pc' = "deciphered"
    /\ UNCHANGED <<perm_vars, stream_vars, key_sigma, key_tau, in_text,
                   sigma, tau,
                   plaintext, ciphertext, sigma_inverse, tau_inverse,
                   decrypted, pos, err>>

NextPermPy ==
    \/ auto_perm_encipher_begin
    \/ auto_perm_encipher_loop
    \/ auto_perm_encipher_return
    \/ auto_perm_decipher_begin
    \/ auto_perm_decipher_loop
    \/ auto_perm_decipher_return

SpecPermPy == InitPermPy /\ [][NextPermPy]_vars

\* ------------------------------------------------------------------------
\* Calls on a Perm object g (src/src/perm.py), one action per method; the
\* loops of disjoint_cycle_decomposition are one action per iteration
\* ------------------------------------------------------------------------
InitPerm ==
    /\ CipherIdle
    /\ StreamIdle
    /\ g \in ValidPerms
    /\ h = EmptyMapping /\ op = "idle" /\ arg = 0
    /\ res = EmptyMapping /\ val = None /\ flag = FALSE
    /\ dcd_remaining = {} /\ dcd_decomposition = <<>>
    /\ dcd_cycle = <<>> /\ dcd_b = None /\ cycle = <<>>
    /\ rendered = <<>>
    /\ err = "none"

\* no call is running and the caller holds no result
Ready == op = "idle"

\* the caller drops the result of the last call and goes on to the next one
caller_continue ==
    /\ op \notin {"idle", "dcd_outer", "dcd_inner"}
    /\ op' = "idle" /\ h' = EmptyMapping /\ arg' = 0
    /\ res' = EmptyMapping /\ val' = None /\ flag' = FALSE
    /\ dcd_remaining' = {} /\ dcd_decomposition' = <<>>
    /\ dcd_cycle' = <<>> /\ dcd_b' = None /\ rendered' = <<>> /\ cycle' = <<>>
    /\ err' = "none"
    /\ UNCHANGED <<g, cipher_vars, stream_vars>>

\* a call named name with operand other and argument n returns
Return(name, other, n, r, v, f, e) ==
    /\ op' = name /\ h' = other /\ arg' = n
    /\ res' = r /\ val' = v /\ flag' = f /\ err' = e
    /\ dcd_remaining' = {} /\ dcd_decomposition' = <<>>
    /\ dcd_cycle' = <<>> /\ dcd_b' = None /\ rendered' = <<>> /\ cycle' = <<>>
    /\ UNCHANGED <<g, cipher_vars, stream_vars>>

\* operands of == : valid permutations, and those with the extra entry
\* Punct -> None that test_eq adds ({**g.mapping, -1: -2})
EqOperands == ValidPerms \cup {SetItem(m, Punct, None) : m \in ValidPerms}

call_is_permutation ==
    /\ Ready
    /\ Return("is_permutation", EmptyMapping, 0, EmptyMapping, None,
              is_permutation(g), "none")

call_getitem ==
    /\ Ready
    /\ \E item \in Symbols :
         Return("getitem", EmptyMapping, item, EmptyMapping,
                getitem(g, item), FALSE, "none")

call_inverse ==
    /\ Ready
    /\ Return("inverse", EmptyMapping, 0, inverse(g), None, FALSE, "none")

call_mul ==
    /\ Ready
    /\ \E other \in ValidPerms :
         Return("mul", other, 0, mul(g, other), None, FALSE, "none")

call_pow ==
    /\ Ready
    /\ \E n \in (0 - MaxExp) .. MaxExp :
         Return("pow", EmptyMapping, n, pow(g, n), None, FALSE, "none")

call_eq ==
    /\ Ready
    /\ \E other \in EqOperands :
         Return("eq", other, 0, EmptyMapping, None, eq(g, other), "none")

\* disjoint_cycle_decomposition: remaining = set(self.mapping) and
\* decomposition = []
dcd_begin ==
    /\ Ready
    /\ op' = "dcd_outer"
    /\ dcd_remaining' = DOMAIN g
    /\ dcd_decomposition' = <<>>
    /\ dcd_cycle' = <<>> /\ dcd_b' = None /\ rendered' = <<>> /\ cycle' = <<>>
    /\ h' = EmptyMapping /\ arg' = 0 /\ res' = EmptyMapping
    /\ val' = None /\ flag' = FALSE /\ err' = "none"
    /\ UNCHANGED <<g, cipher_vars, stream_vars>>

\* while remaining: a = remaining.pop() (any element); cycle = [a];
\* b = self[a]
dcd_pop ==
    /\ op = "dcd_outer"
    /\ dcd_remaining # {}
    /\ \E a \in dcd_remaining :
         /\ dcd_remaining' = dcd_remaining \ {a}
         /\ dcd_cycle' = <<a>>
         /\ dcd_b' = getitem(g, a)
         /\ UNCHANGED rendered
    /\ op' = "dcd_inner"
    /\ UNCHANGED <<g, h, arg, res, val, flag, dcd_decomposition,
                   cycle, cipher_vars, stream_vars, err>>

\* while b != a: remaining.remove(b) (KeyError when b is absent);
\* cycle.append(b); b = self[b]
dcd_while ==
    /\ op = "dcd_inner"
    /\ dcd_b # dcd_cycle[1]
    /\ IF dcd_b \notin dcd_remaining
       THEN /\ err' = "KeyError"
            /\ op' = "dcd_raised"
            /\ UNCHANGED <<dcd_remaining, dcd_cycle, dcd_b, rendered>>
       ELSE /\ dcd_remaining' = dcd_remaining \ {dcd_b}
            /\ dcd_cycle' = Append(dcd_cycle, dcd_b)
            /\ dcd_b' = getitem(g, dcd_b)
            /\ UNCHANGED rendered
            /\ UNCHANGED <<op, err>>
    /\ UNCHANGED <<g, h, arg, res, val, flag, dcd_decomposition,
                   cycle, cipher_vars, stream_vars>>

\* b == a: if len(cycle) > 1: decomposition.append(cycle)
dcd_close ==
    /\ op = "dcd_inner"
    /\ dcd_b = dcd_cycle[1]
    /\ dcd_decomposition' = IF Len(dcd_cycle) > 1
                            THEN Append(dcd_decomposition, dcd_cycle)
                            ELSE dcd_decomposition
    /\ op' = "dcd_outer"
    /\ UNCHANGED <<g, h, arg, res, val, flag, dcd_remaining, dcd_cycle,
                   dcd_b, rendered, cycle, cipher_vars, stream_vars, err>>

\* remaining is empty: return decomposition
dcd_return ==
    /\ op = "dcd_outer"
    /\ dcd_remaining = {}
    /\ op' = "dcd_done"
    /\ UNCHANGED <<g, h, arg, res, val, flag, dcd_remaining,
                   dcd_decomposition, dcd_cycle, dcd_b, rendered, cycle, cipher_vars,
                   stream_vars, err>>

\* the characters "(" and ")" of __str__, apart from every symbol
LParen == -40
RParen == -41

\* " ".join(map(str, cycle)): a symbol is one character, -4 is the space
RECURSIVE join_spaced(_)
join_spaced(c) ==
    IF Len(c) <= 1 THEN c
    ELSE <<Head(c), -4>> \o join_spaced(Tail(c))

\* "".join("({})".format(" ".join(map(str, cycle))) for cycle in decomposition)
RECURSIVE str(_)
str(decomposition) ==
    IF decomposition = <<>> THEN <<>>
    ELSE <<LParen>> \o join_spaced(Head(decomposition)) \o <<RParen>> \o
         str(Tail(decomposition))

\* __str__: disjoint_cycle_decomposition() has returned and its cycles are
\* joined
str_join ==
    /\ op = "dcd_done"
    /\ op' = "str"
    /\ rendered' = str(dcd_decomposition)
    /\ UNCHANGED <<g, h, arg, res, val, flag, dcd_remaining,
                   dcd_decomposition, dcd_cycle, dcd_b, cycle, cipher_vars,
                   stream_vars, err>>

\* ------------------------------------------------------------------------
\* Calls on a Perm object of src/perm.py (g is a bijection of the letters)
\* ------------------------------------------------------------------------
perm_py_do_call ==
    /\ Ready
    /\ g \in PermPyPerms
    /\ \E char \in Symbols :
         Return("perm_py_call", EmptyMapping, char, EmptyMapping,
                perm_py_call(g, char), FALSE,
                IF perm_py_call(g, char) = KeyError THEN "KeyError" ELSE "none")

perm_py_do_mul ==
    /\ Ready
    /\ g \in PermPyPerms
    /\ \E perm \in PermPyPerms :
         Return("perm_py_mul", perm, 0, perm_py_mul(g, perm), None, FALSE,
                "none")

perm_py_do_invert ==
    /\ Ready
    /\ g \in PermPyPerms
    /\ Return("perm_py_invert", EmptyMapping, 0, perm_py_invert(g), None,
              FALSE, "none")

perm_py_do_dcd ==
    /\ Ready
    /\ g \in PermPyPerms
    /\ op' = "perm_py_dcd"
    /\ dcd_decomposition' = perm_py_disjoint_cycle_decomposition(g)
    /\ dcd_remaining' = {} /\ dcd_cycle' = <<>> /\ dcd_b' = None /\ rendered' = <<>>
    /\ cycle' = <<>>
    /\ h' = EmptyMapping /\ arg' = 0 /\ res' = EmptyMapping
    /\ val' = None /\ flag' = FALSE /\ err' = "none"
    /\ UNCHANGED <<g, cipher_vars, stream_vars>>

\* reduce(mul, map(Perm.from_cycle, decomposition), Perm()) of
\* test_disjoint_cycle_decomposition: the product of the cycles, left to
\* right, starting from the identity
RECURSIVE reduce_mul(_, _)
reduce_mul(cycles, acc) ==
    IF cycles = <<>> THEN acc
    ELSE reduce_mul(Tail(cycles), mul(acc, from_cycle(Head(cycles))))

\* the caller rebuilds a permutation from the decomposition just returned
call_reconstruct ==
    /\ op = "dcd_done"
    /\ res' = reduce_mul(dcd_decomposition, Perm(EmptyMapping))
    /\ op' = "reconstructed"
    /\ UNCHANGED <<g, h, arg, val, flag, dcd_remaining, dcd_decomposition,
                   dcd_cycle, dcd_b, rendered, cycle, cipher_vars, stream_vars, err>>

\* j copies of the sequence c, one after the other (list(range(i)) * j)
RECURSIVE Repeat(_, _)
Repeat(c, j) == IF j = 0 THEN <<>> ELSE c \o Repeat(c, j - 1)

\* sequences passed to from_cycle: every sequence of up to MaxCycle letters,
\* and up to MaxCopies copies of each of them that is without repeats
Cycles ==
    Streams(MaxCycle) \cup
    {Repeat(c, j) :
        c \in {t \in Streams(MaxCycle) :
                  Cardinality({t[i] : i \in 1 .. Len(t)}) = Len(t)},
        j \in 1 .. MaxCopies}

\* Perm.from_cycle(cycle)
call_from_cycle ==
    /\ Ready
    /\ \E c \in Cycles :
         /\ cycle' = c
         /\ res' = from_cycle(c)
    /\ op' = "from_cycle" /\ err' = "none"
    /\ UNCHANGED <<g, h, arg, val, flag, dcd_remaining, dcd_decomposition,
                   dcd_cycle, dcd_b, rendered, cipher_vars, stream_vars>>

\* dict(zip(domain, outputs)): the pairs are stored in order, up to the end
\* of the shorter argument
RECURSIVE dict_zip(_, _)
dict_zip(domain, outputs) ==
    IF domain = <<>> \/ outputs = <<>> THEN EmptyMapping
    ELSE LET n == IF Len(domain) <= Len(outputs) THEN Len(domain)
                  ELSE Len(outputs)
         IN  SetItem(dict_zip(SubSeq(domain, 1, n - 1),
                              SubSeq(outputs, 1, n - 1)),
                     domain[n], outputs[n])

\* outputs drawn one by one from the list, as random.choices would
shuffle_with_replacement(outputs) ==
    [1 .. Len(outputs) -> Range(outputs)]

\* random.shuffle(outputs): every order of the items of the list
shuffle(outputs) ==
    {[i \in 1 .. Len(outputs) |-> outputs[p[i]]] :
        p \in Permutations(1 .. Len(outputs))}

\* Perm.random(domain): the permutations it can return
random(domain) == {Perm(dict_zip(domain, outputs)) : outputs \in shuffle(domain)}

\* the domains passed to Perm.random: the sequences without repeats of up
\* to MaxCycle letters, and range(4)
Domains ==
    {t \in Streams(MaxCycle) :
        Cardinality({t[i] : i \in 1 .. Len(t)}) = Len(t)}
    \cup {<<0, 1, 2, 3>>}

\* Perm.random(domain)
call_random ==
    /\ Ready
    /\ \E d \in Domains :
         /\ cycle' = d
         /\ \E r \in random(d) : res' = r
    /\ op' = "random" /\ err' = "none"
    /\ UNCHANGED <<g, h, arg, val, flag, dcd_remaining, dcd_decomposition,
                   dcd_cycle, dcd_b, rendered, cipher_vars, stream_vars>>

\* Perm(cycle) of src/perm.py: the assert in the loop stops the constructor
\* at the first letter that occurs more than once
perm_py_do_init ==
    /\ Ready
    /\ \E c \in Cycles :
         /\ cycle' = c
         /\ IF perm_py_init_asserts(c)
            THEN res' = perm_py_init(c) /\ err' = "none"
            ELSE res' = EmptyMapping /\ err' = "AssertionError"
    /\ op' = "perm_py_init"
    /\ UNCHANGED <<g, h, arg, val, flag, dcd_remaining, dcd_decomposition,
                   dcd_cycle, dcd_b, rendered, cipher_vars, stream_vars>>

\* mappings passed to the constructor: every function from a set of letters
\* among A..C to the letters, a bijection of its key set or not
Mappings == UNION {[D -> Alphabet] : D \in SUBSET (0 .. 2)}

\* Perm(mapping): self.mapping = mapping, no check
call_init ==
    /\ Ready
    /\ \E mapping \in Mappings :
         /\ h' = mapping
         /\ res' = Perm(mapping)
    /\ op' = "init" /\ err' = "none"
    /\ UNCHANGED <<g, arg, val, flag, dcd_remaining, dcd_decomposition,
                   dcd_cycle, dcd_b, rendered, cycle, cipher_vars, stream_vars>>

\* Perm(mapping).is_permutation() on the object just constructed
init_is_permutation ==
    /\ op = "init"
    /\ flag' = is_permutation(res)
    /\ op' = "init_is_permutation"
    /\ UNCHANGED <<g, h, arg, res, val, dcd_remaining, dcd_decomposition,
                   dcd_cycle, dcd_b, rendered, cycle, cipher_vars, stream_vars, err>>

NextPerm ==
    \/ call_is_permutation
    \/ call_getitem
    \/ call_inverse
    \/ call_mul
    \/ call_pow
    \/ call_eq
    \/ dcd_begin
    \/ dcd_pop
    \/ dcd_while
    \/ dcd_close
    \/ dcd_return
    \/ str_join
    \/ perm_py_do_call
    \/ perm_py_do_mul
    \/ perm_py_do_invert
    \/ perm_py_do_dcd
    \/ call_reconstruct
    \/ call_from_cycle
    \/ call_random
    \/ perm_py_do_init
    \/ call_init
    \/ init_is_permutation
    \/ caller_continue

SpecPerm == InitPerm /\ [][NextPerm]_vars

\* a session of calls on a permutation, or a run of the cipher on keys
InitPermCipher == InitPerm \/ InitCipher

NextPermCipher ==
    \/ pc = "idle" /\ NextPerm
    \/ NextCipher

SpecPermCipher == InitPermCipher /\ [][NextPermCipher]_vars

\* the calls return: each started call is eventually allowed to run on
FairSpecPerm == SpecPerm /\ WF_vars(dcd_pop \/ dcd_while \/ dcd_close \/ dcd_return)

\* ------------------------------------------------------------------------
\* CipherStreamer (src/src/cipher_streamer.py). Characters are integers: the
\* upper case letters are 0 .. 25 (A, B, C and X are 0, 1, 2 and 3, then D
\* to W, Y and Z), a lower case letter is its upper case letter plus 32, and
\* every other character is negative
\* ------------------------------------------------------------------------
MaxText == 3
MaxBlock == 2
MaxWidth == 3

BLOCK_DEFAULT == 4
WIDTH_DEFAULT == 80

Space == -4
Newline == -5
\* the empty string that get_lines passes to chunk as fillvalue
EmptyStr == -6
\* the k-th punctuation mark of the test sentence: " ( ) , ! ? ;
Mark(k) == -6 - k

c_isalpha(c) == c \in (0 .. 25) \cup (32 .. 57)
c_isupper(c) == c \in 0 .. 25
c_upper(c) == IF c \in 32 .. 57 THEN c - 32 ELSE c
c_lower(c) == IF c \in 0 .. 25 THEN c + 32 ELSE c
c_isspace(c) == c \in {Space, Newline}

\* "".join(line).upper() and "".join(line).lower(), character by character
upper(text) == [i \in 1 .. Len(text) |-> c_upper(text[i])]
lower(text) == [i \in 1 .. Len(text) |-> c_lower(text[i])]

\* (c.upper() for c in ... if c.isalpha()): the letter stream handed to func
input_text(file) == upper(SelectSeq(file, c_isalpha))

\* the generators of the tests: the letters each one yields for a stream
unchanged(text) == text
to_upper(text) == upper(text)
to_lower(text) == lower(text)
\* to_random yields each letter in either case
RECURSIVE to_random(_)
to_random(text) ==
    IF text = <<>> THEN {<<>>}
    ELSE {<<c>> \o rest :
             c \in {c_lower(Head(text)), c_upper(Head(text))},
             rest \in to_random(Tail(text))}
to_exes(text) == [i \in 1 .. Len(text) |-> X]
extra_exes(text) == [i \in 1 .. 2 * Len(text) |-> X]
not_enough_exes(text) == <<X, X, X>>

generators == {"unchanged", "to_upper", "to_lower", "to_random",
               "to_exes", "extra_exes", "not_enough_exes"}

\* the outputs self.func(text) can yield
func_outputs(f, text) ==
    CASE f = "unchanged" -> {unchanged(text)}
      [] f = "to_upper" -> {to_upper(text)}
      [] f = "to_lower" -> {to_lower(text)}
      [] f = "to_random" -> to_random(text)
      [] f = "to_exes" -> {to_exes(text)}
      [] f = "extra_exes" -> {extra_exes(text)}
      [] f = "not_enough_exes" -> {not_enough_exes(text)}

\* itertools.chain.from_iterable over a list of sequences
RECURSIVE chain_from_iterable(_)
chain_from_iterable(seqs) ==
    IF seqs = <<>> THEN <<>>
    ELSE Head(seqs) \o chain_from_iterable(Tail(seqs))

min(a, b) == IF a <= b THEN a ELSE b
max(a, b) == IF a >= b THEN a ELSE b

\* the test without min(block, width) > 0: a width that switches wrapping
\* off is refused when it is below the block size
get_lines_raises_any_sign(blk, wid) == wid < blk

\* get_lines raises ValueError("`width` should be >= `block`")
get_lines_raises(blk, wid) == min(blk, wid) > 0 /\ wid < blk

\* get_lines with blocks_per_line = width // block: the separators between
\* the blocks are not counted
get_lines_no_separator(iterable, blk, wid) ==
    IF blk <= 0
    THEN IF wid <= 0
         THEN <<iterable>>
         ELSE chunk(iterable, wid, EmptyStr)
    ELSE LET chunks == chunk(iterable, blk, EmptyStr)
             chunks_spaced ==
                 [k \in 1 .. Len(chunks) |-> chunks[k] \o <<Space>>]
         IN  IF wid <= 0
             THEN <<chain_from_iterable(chunks_spaced)>>
             ELSE LET blocks_per_line == wid \div blk
                      per_line == chunk(chunks_spaced, blocks_per_line, <<>>)
                  IN  [k \in 1 .. Len(per_line) |->
                          chain_from_iterable(per_line[k])]

\* get_lines(iterable, block, width): the lines, each the sequence of the
\* strings that "".join later puts together
get_lines(iterable, blk, wid) ==
    IF blk <= 0
    THEN IF wid <= 0
         THEN <<iterable>>
         ELSE chunk(iterable, wid, EmptyStr)
    ELSE LET chunks == chunk(iterable, blk, EmptyStr)
             chunks_spaced ==
                 [k \in 1 .. Len(chunks) |-> chunks[k] \o <<Space>>]
         IN  IF wid <= 0
             THEN <<chain_from_iterable(chunks_spaced)>>
             ELSE LET blocks_per_line == (wid + 1) \div (blk + 1)
                      per_line == chunk(chunks_spaced, blocks_per_line, <<>>)
                  IN  [k \in 1 .. Len(per_line) |->
                          chain_from_iterable(per_line[k])]

\* "".join(line): the empty strings add nothing
join(line) == SelectSeq(line, LAMBDA c : c # EmptyStr)

\* str.strip(): leading and trailing white space removed
RECURSIVE lstrip(_)
lstrip(text) ==
    IF text # <<>> /\ c_isspace(Head(text)) THEN lstrip(Tail(text)) ELSE text

RECURSIVE rstrip(_)
rstrip(text) ==
    IF text # <<>> /\ c_isspace(text[Len(text)])
    THEN rstrip(SubSeq(text, 1, Len(text) - 1))
    ELSE text

strip(text) == rstrip(lstrip(text))

\* texts of up to n characters over an upper case letter, a lower case
\* letter and a punctuation mark
TextChars == {0, c_lower(1), Punct}

RECURSIVE Texts(_)
Texts(n) ==
    IF n = 0 THEN {<<>>}
    ELSE LET shorter == Texts(n - 1)
         IN  shorter \cup
             {Append(s, c) : s \in {t \in shorter : Len(t) = n - 1},
                             c \in TextChars}

\* the sentence of the tests: "Sphinx (of black quartz), judge my vow!?";
SphinxText ==
    <<Mark(1), 19, c_lower(16), c_lower(8), c_lower(9), c_lower(14),
      c_lower(3), Space, Mark(2), c_lower(15), c_lower(6), Space,
      c_lower(1), c_lower(12), c_lower(0), c_lower(2), c_lower(11), Space,
      c_lower(17), c_lower(21), c_lower(0), c_lower(18), c_lower(20),
      c_lower(25), Mark(3), Mark(4), Space, c_lower(10), c_lower(21),
      c_lower(4), c_lower(7), c_lower(5), Space, c_lower(13), c_lower(24),
      Space, c_lower(22), c_lower(15), c_lower(23), Mark(5), Mark(6),
      Mark(1), Mark(7)>>

\* the block and width arguments drawn for short texts (<<>> is None), and
\* those of the tests on the sentence
BlockArgs == {<<>>} \cup {<<n>> : n \in -1 .. MaxBlock}
WidthArgs == {<<>>} \cup {<<n>> : n \in -1 .. MaxWidth}
SphinxBlock == 5
SphinxWidths == {0} \cup (10 .. 17)

\* ------------------------------------------------------------------------
\* CipherStreamer.__call__, preserve and strip: one action per call and one
\* per iteration of the loop that writes
\* ------------------------------------------------------------------------
\* the keyword arguments of a call beside preserve, block, width and
\* compare: none, or lowercase=True or lowercase=False as main passes it
KeywordArgs == {<<>>, <<TRUE>>, <<FALSE>>}

\* CipherStreamer(func) has been constructed; the caller holds an input
\* file, an empty output file and the keyword arguments of the call
InitStreamer ==
    /\ PermIdle
    /\ CipherIdle
    /\ \/ /\ in_file \in Texts(MaxText)
          /\ func \in generators
          /\ block \in BlockArgs
          /\ width \in WidthArgs
       \/ /\ in_file = SphinxText
          /\ func \in generators \ {"to_random"}
          /\ \/ block = <<>> /\ width = <<>>
             \/ block = <<SphinxBlock>> /\ width \in {<<w>> : w \in SphinxWidths}
    /\ compare \in BOOLEAN
    /\ in_file_2 = 0 /\ output = <<>> /\ c_pos = 0 /\ out_file = <<>>
    /\ spc = "idle" /\ lines = <<>> /\ plain_lines = <<>> /\ line_pos = 0
    /\ plain_file = <<>>
    /\ lowercase \in KeywordArgs
    /\ key = <<>> /\ args = NoArgs
    /\ err = "none"

\* an argument left at None takes its default
default(argument, value) == IF argument = <<>> THEN value ELSE argument[1]

\* the position in file of the first letter after position n, or one past
\* the end of the file when no letter is left
RECURSIVE next_alpha(_, _)
next_alpha(file, n) ==
    IF n + 1 > Len(file) THEN Len(file) + 1
    ELSE IF c_isalpha(file[n + 1]) THEN n + 1
    ELSE next_alpha(file, n + 1)

c_notalpha(c) == ~c_isalpha(c)

\* punc without the assignment punc = ' ' before the inner loop: when the
\* loop reads nothing, punc is still the letter read last
punc_after_stale(file, n) ==
    LET k == next_alpha(file, n)
    IN  IF k <= Len(file) THEN file[k]
        ELSE IF k - 1 > n THEN file[k - 1]
        ELSE IF n > 0 THEN file[n]
        ELSE Space

\* punc after the inner loop that started with n characters read: the last
\* character it read, or the ' ' assigned before it when it read none
punc_after(file, n) ==
    LET k == next_alpha(file, n)
    IN  IF k <= Len(file) THEN file[k]
        ELSE IF k - 1 > n THEN file[k - 1]
        ELSE Space

\* the output letter written as the transform yielded it
cased_as_yielded(punc, c) == c

\* the character written for the output letter c
cased(punc, c) ==
    IF ~c_isalpha(punc) THEN c
    ELSE IF c_isupper(punc) THEN c_upper(c)
    ELSE c_lower(c)

\* the last loop without its test: the letters left over are written too
flushed_with_letters(file, n) == SubSeq(file, n + 1, Len(file))

\* what the loop after the for loop writes when n characters are read
flushed(file, n) == SelectSeq(SubSeq(file, n + 1, Len(file)), c_notalpha)

\* the ValueError of __call__ and the ValueError of get_lines
PreserveError == "ValueError: Preserve mode doesn't understand block or width"
WidthError == "ValueError: width should be >= block"

\* the test with "and" for "or": a block or a width alone is let through
preserve_raises_both_given(blk, wid, kwargs) ==
    IF blk # <<>> /\ wid # <<>> THEN PreserveError
    ELSE IF kwargs # <<>> THEN "TypeError"
    ELSE "none"

\* what __call__(..., preserve=True, block=..., width=..., **kwargs) raises
\* before preserve has read or written anything: the ValueError of __call__,
\* or the TypeError of self.func(letters, *args, **kwargs) when a keyword
\* argument the transform does not take is passed through
preserve_raises(blk, wid, kwargs) ==
    IF blk # <<>> \/ wid # <<>> THEN PreserveError
    ELSE IF kwargs # <<>> THEN "TypeError"
    ELSE "none"

\* __call__(in_file, out_file, preserve=True, block=..., width=...): the
\* error, or preserve up to its first loop
call_preserve ==
    /\ spc = "idle"
    /\ IF preserve_raises(block, width, lowercase) # "none"
       THEN /\ err' = preserve_raises(block, width, lowercase)
            /\ spc' = "raised"
            /\ UNCHANGED <<output, in_file_2, c_pos, out_file>>
       ELSE /\ \E out \in func_outputs(func, input_text(in_file)) :
                 output' = out
            /\ in_file_2' = 0 /\ c_pos' = 0 /\ out_file' = <<>>
            /\ spc' = "preserve_for"
            /\ err' = "none"
    /\ UNCHANGED <<perm_vars, cipher_vars, func, in_file, block, width,
                   compare, lines, plain_lines, line_pos, plain_file, lowercase, key, args>>

\* for c in output: the punctuation up to the next letter of in_file_2 is
\* copied, then c is written in the case of that letter, or as it is when
\* in_file_2 has run out
preserve_for ==
    /\ spc = "preserve_for"
    /\ c_pos < Len(output)
    /\ LET c == output[c_pos + 1]
           k == next_alpha(in_file, in_file_2)
           copied == SubSeq(in_file, in_file_2 + 1, k - 1)
           punc == punc_after(in_file, in_file_2)
       IN  /\ in_file_2' = min(k, Len(in_file))
           /\ IF c = None
              THEN \* c.upper() or out_file.write(c) of None
                   /\ out_file' = out_file \o copied
                   /\ err' = IF c_isalpha(punc) THEN "AttributeError"
                                                ELSE "TypeError"
                   /\ spc' = "raised"
                   /\ UNCHANGED c_pos
              ELSE /\ out_file' = out_file \o copied \o <<cased(punc, c)>>
                   /\ c_pos' = c_pos + 1
                   /\ UNCHANGED <<spc, err>>
    /\ UNCHANGED <<perm_vars, cipher_vars, func, in_file, output, block,
                   width, compare, lines, plain_lines, line_pos, plain_file, lowercase, key, args>>

\* output is exhausted: for punc in in_file_2, the characters that are not
\* letters are written
preserve_flush ==
    /\ spc = "preserve_for"
    /\ c_pos = Len(output)
    /\ out_file' = out_file \o flushed(in_file, in_file_2)
    /\ in_file_2' = Len(in_file)
    /\ spc' = "preserved"
    /\ UNCHANGED <<perm_vars, cipher_vars, func, in_file, output, c_pos,
                   block, width, compare, lines, plain_lines, line_pos,
                   plain_file, lowercase, key, args, err>>

\* the line written without strip(): the space after the last block stays
written_line_unstripped(line) == Append(upper(join(line)), Newline)

\* "".join(line).strip().upper() and the newline after it
written_line(line) == Append(upper(strip(join(line))), Newline)

\* what strip raises before its loop: get_lines(plaintext, block, width)
\* when compare is set, then self.func(input_text, *args, **kwargs) with a
\* keyword argument the transform does not take, then get_lines(output,
\* block, width)
strip_raises(blk, wid, cmp, kwargs) ==
    IF cmp /\ get_lines_raises(blk, wid) THEN WidthError
    ELSE IF kwargs # <<>> THEN "TypeError"
    ELSE IF get_lines_raises(blk, wid) THEN WidthError
    ELSE "none"

\* __call__(in_file, out_file, block=..., width=..., compare=...): strip up
\* to its loop; the errors are raised before anything is written
call_strip ==
    /\ spc = "idle"
    /\ LET blk == default(block, BLOCK_DEFAULT)
           wid == default(width, WIDTH_DEFAULT)
       IN  IF strip_raises(blk, wid, compare, lowercase) # "none"
           THEN /\ err' = strip_raises(blk, wid, compare, lowercase)
                /\ spc' = "raised"
                /\ UNCHANGED <<output, lines, plain_lines, line_pos,
                               out_file>>
           ELSE /\ \E out \in func_outputs(func, input_text(in_file)) :
                     /\ output' = out
                     /\ lines' = get_lines(out, blk, wid)
                /\ plain_lines' =
                     IF compare THEN get_lines(input_text(in_file), blk, wid)
                     ELSE <<>>
                /\ line_pos' = 0 /\ out_file' = <<>>
                /\ spc' = "strip_for"
                /\ err' = "none"
    /\ UNCHANGED <<perm_vars, cipher_vars, func, in_file, in_file_2, c_pos,
                   block, width, compare, plain_file, lowercase, key, args>>

\* for line, plain in zip_longest(lines, plain_lines, fillvalue=None)
strip_for ==
    /\ spc = "strip_for"
    /\ line_pos < max(Len(lines), Len(plain_lines))
    /\ LET i == line_pos + 1
           plain_written ==
               IF compare /\ i <= Len(plain_lines)
               THEN written_line(plain_lines[i])
               ELSE <<>>
       IN  IF i > Len(lines)
           THEN \* "".join(None)
                /\ out_file' = out_file \o plain_written
                /\ err' = "TypeError"
                /\ spc' = "raised"
                /\ UNCHANGED line_pos
           ELSE /\ out_file' = out_file \o plain_written \o
                        written_line(lines[i]) \o
                        (IF compare THEN <<Newline>> ELSE <<>>)
                /\ line_pos' = i
                /\ UNCHANGED <<spc, err>>
    /\ UNCHANGED <<perm_vars, cipher_vars, func, in_file, in_file_2, output,
                   c_pos, block, width, compare, lines, plain_lines,
                   plain_file, lowercase, key, args>>

\* the lines are exhausted: strip returns
strip_return ==
    /\ spc = "strip_for"
    /\ line_pos = max(Len(lines), Len(plain_lines))
    /\ spc' = "stripped"
    /\ UNCHANGED <<perm_vars, cipher_vars, func, in_file, in_file_2, output,
                   c_pos, out_file, block, width, compare, lines,
                   plain_lines, line_pos, plain_file, lowercase, key, args, err>>

NextStreamer ==
    \/ call_preserve
    \/ preserve_for
    \/ preserve_flush
    \/ call_strip
    \/ strip_for
    \/ strip_return

SpecStreamer == InitStreamer /\ [][NextStreamer]_vars

\* ------------------------------------------------------------------------
\* test_integration: autoperm_encipher.preserve on a text, then
\* autoperm_decipher.preserve on what it wrote, with the same keys. The
\* cipher functions run as in SpecCipher; preserve takes their output when
\* they have ended
\* ------------------------------------------------------------------------
\* autoperm_encipher.preserve(plaintext, ciphertext, sigma, tau) has built
\* its letter stream and handed it to autoperm_encipher.func
InitIntegration ==
    /\ PermIdle
    /\ key_sigma \in KeyPerms
    /\ key_tau \in KeyPerms
    /\ plain_file \in Texts(MaxText)
    /\ in_file = plain_file
    /\ in_text = input_text(in_file)
    /\ sigma = key_sigma
    /\ tau = key_tau
    /\ plaintext = in_text
    /\ ciphertext = <<>>
    /\ sigma_inverse = EmptyMapping
    /\ tau_inverse = EmptyMapping
    /\ decrypted = <<>>
    /\ pc = "encipher"
    /\ pos = 0
    /\ func = "autoperm_encipher"
    /\ spc = "preserve_func"
    /\ in_file_2 = 0 /\ output = <<>> /\ c_pos = 0 /\ out_file = <<>>
    /\ block = <<>> /\ width = <<>> /\ compare = FALSE
    /\ lines = <<>> /\ plain_lines = <<>> /\ line_pos = 0
    /\ lowercase = <<>> /\ key = <<>> /\ args = NoArgs
    /\ err = "none"

\* output = self.func(...): the letters the cipher function yields
preserve_output ==
    /\ spc = "preserve_func"
    /\ pc \in {"enciphered", "deciphered"}
    /\ output' = IF pc = "enciphered" THEN ciphertext ELSE decrypted
    /\ in_file_2' = 0 /\ c_pos' = 0 /\ out_file' = <<>>
    /\ spc' = "preserve_for"
    /\ UNCHANGED <<perm_vars, cipher_vars, func, in_file, block, width,
                   compare, lines, plain_lines, line_pos, plain_file, lowercase, key, args, err>>

\* ciphertext = io.StringIO(ciphertext.getvalue()) and
\* autoperm_decipher.preserve(ciphertext, decrypted_plaintext, sigma, tau):
\* the letter stream of the file just written goes to autoperm_decipher.func,
\* which takes the two inverses before its loop
preserve_decipher ==
    /\ spc = "preserved"
    /\ pc = "enciphered"
    /\ in_file' = out_file
    /\ ciphertext' = input_text(out_file)
    /\ sigma_inverse' = inverse(key_sigma)
    /\ tau_inverse' = inverse(key_tau)
    /\ pc' = "decipher"
    /\ pos' = 0
    /\ func' = "autoperm_decipher"
    /\ spc' = "preserve_func"
    /\ in_file_2' = 0 /\ output' = <<>> /\ c_pos' = 0 /\ out_file' = <<>>
    /\ UNCHANGED <<perm_vars, key_sigma, key_tau, in_text, sigma, tau,
                   plaintext, decrypted, block, width, compare, lines,
                   plain_lines, line_pos, plain_file, lowercase, key, args, err>>

NextIntegration ==
    \/ autoperm_encipher_pair
    \/ autoperm_encipher_odd
    \/ autoperm_encipher_stop
    \/ preserve_output
    \/ preserve_for
    \/ preserve_flush
    \/ preserve_decipher
    \/ autoperm_decipher_pair
    \/ autoperm_decipher_odd
    \/ autoperm_decipher_stop

SpecIntegration == InitIntegration /\ [][NextIntegration]_vars

\* the same with the cipher functions and the CipherStreamer.__call__ of
\* src/autoperm.py
NextIntegrationAutopermPy ==
    \/ autoperm_encipher_pair
    \/ autoperm_encipher_odd
    \/ autoperm_encipher_stop
    \/ preserve_output
    \/ preserve_for
    \/ preserve_flush
    \/ preserve_decipher
    \/ autoperm_decipher_pair
    \/ autoperm_py_decipher_odd
    \/ autoperm_decipher_stop

SpecIntegrationAutopermPy ==
    InitIntegration /\ [][NextIntegrationAutopermPy]_vars

\* ------------------------------------------------------------------------
\* permutation_from_key (src/src/autoperm.py and src/autoperm.py)
\* ------------------------------------------------------------------------
MaxKey == 3

\* string.ascii_uppercase: the capitals in alphabetical order (X is 3, D to W
\* are 4 to 23)
ascii_uppercase == <<0, 1, 2>> \o [i \in 1 .. 20 |-> i + 3] \o <<3, 24, 25>>

\* the place of a capital in the alphabet, by which sorted() and < order
\* letters
ord(c) == IF c = 3 THEN 24 ELSE IF c \in 4 .. 23 THEN c ELSE c + 1

\* map(str.upper, filter(str.isalpha, gen))
strip_punc(gen) == upper(SelectSeq(gen, c_isalpha))

\* collections.OrderedDict.fromkeys(seq): each item once, where it came first
RECURSIVE fromkeys(_)
fromkeys(seq) ==
    IF seq = <<>> THEN <<>>
    ELSE LET front == fromkeys(SubSeq(seq, 1, Len(seq) - 1))
             c == seq[Len(seq)]
         IN  IF c \in Range(front) THEN front ELSE Append(front, c)

\* sorted(alphabet) for a set of capitals
sorted(alphabet) == SelectSeq(ascii_uppercase, LAMBDA c : c \in alphabet)

\* permutation_from_key(key) of src/src/autoperm.py: the first loop maps the
\* first letters of the alphabet to the distinct letters of the key, the
\* second maps the others to the unused letters from start_index on, which
\* the while loop left at the first unused letter that is not below the last
\* key letter
permutation_from_key(key_text) ==
    LET key_unique == fromkeys(strip_punc(key_text))
        n == Len(key_unique)
        k == IF n = 0 THEN 0 ELSE key_unique[n]
        alphabet == sorted(Range(ascii_uppercase) \ Range(key_unique))
        start_index == Cardinality({i \in 1 .. Len(alphabet) :
                                       ord(alphabet[i]) < ord(k)})
    IN  [a \in Range(ascii_uppercase) |->
            IF ord(a) <= n THEN key_unique[ord(a)]
            ELSE alphabet[((start_index + ord(a) - n - 1) % Len(alphabet)) + 1]]

\* permutation_from_key(key) of src/autoperm.py: the second loop zips
\* sorted(alphabet) with the letters left
autoperm_py_permutation_from_key(key_text) ==
    LET key_unique == fromkeys(upper(SelectSeq(key_text, c_isalpha)))
        n == Len(key_unique)
        alphabet == sorted(Range(ascii_uppercase) \ Range(key_unique))
    IN  [a \in Range(ascii_uppercase) |->
            IF ord(a) <= n THEN key_unique[ord(a)]
            ELSE alphabet[ord(a) - n]]

\* the capitals at the given places of the alphabet, counted from 0
letters_at(places) == [i \in 1 .. Len(places) |-> ascii_uppercase[places[i] + 1]]

\* keys of the tests: "linustorvalds", "zebra" and each single capital
linustorvalds == lower(letters_at(<<11, 8, 13, 20, 18, 19, 14, 17, 21, 0, 11, 3, 18>>))
zebra == lower(letters_at(<<25, 4, 1, 17, 0>>))
TestKeys ==
    {linustorvalds, zebra}
    \cup {<<c>> : c \in Range(ascii_uppercase)}

\* the characters of the short keys: A, b, C, Z, x and a character that is
\* not a letter
KeyChars == {0, c_lower(1), 2, 25, c_lower(3), Punct}

RECURSIVE Keys(_)
Keys(n) ==
    IF n = 0 THEN {<<>>}
    ELSE LET shorter == Keys(n - 1)
         IN  shorter \cup
             {Append(s, c) : s \in {t \in shorter : Len(t) = n - 1},
                             c \in KeyChars}

\* a caller holds a key
InitKey ==
    /\ PermIdle
    /\ CipherIdle
    /\ func = "none" /\ in_file = <<>> /\ in_file_2 = 0
    /\ output = <<>> /\ c_pos = 0 /\ out_file = <<>> /\ spc = "key"
    /\ block = <<>> /\ width = <<>> /\ compare = FALSE
    /\ lines = <<>> /\ plain_lines = <<>> /\ line_pos = 0
    /\ plain_file = <<>>
    /\ lowercase = <<>> /\ args = NoArgs
    /\ key \in Keys(MaxKey) \cup TestKeys
    /\ err = "none"

\* sigma = permutation_from_key(key)
call_permutation_from_key ==
    /\ spc = "key"
    /\ res' = permutation_from_key(key)
    /\ spc' = "permutation_from_key"
    /\ UNCHANGED <<g, h, op, arg, val, flag, dcd_remaining,
                   dcd_decomposition, dcd_cycle, dcd_b, rendered, cycle, cipher_vars,
                   func, in_file, in_file_2, output, c_pos, out_file, block,
                   width, compare, lines, plain_lines, line_pos, plain_file,
                   lowercase, key, args, err>>

\* the same call in src/autoperm.py
autoperm_py_call_permutation_from_key ==
    /\ spc = "key"
    /\ res' = autoperm_py_permutation_from_key(key)
    /\ spc' = "permutation_from_key"
    /\ UNCHANGED <<g, h, op, arg, val, flag, dcd_remaining,
                   dcd_decomposition, dcd_cycle, dcd_b, rendered, cycle, cipher_vars,
                   func, in_file, in_file_2, output, c_pos, out_file, block,
                   width, compare, lines, plain_lines, line_pos, plain_file,
                   lowercase, key, args, err>>

SpecKey == InitKey /\ [][call_permutation_from_key]_vars

SpecKeyAutopermPy == InitKey /\ [][autoperm_py_call_permutation_from_key]_vars

\* ------------------------------------------------------------------------
\* get_args and main (src/src/autoperm.py): the program run with -k SIGMA TAU
\* and -e or -d on an input file
\* ------------------------------------------------------------------------
MaxArgText == 2

\* the keys of the command line
ArgKeys == {<<>>, <<c_lower(1)>>, zebra}

\* the Namespace parse_args() returns: store_const options are None or True,
\* int options None or a number
Namespaces ==
    [preserve : BOOLEAN, decrypt : BOOLEAN, keys : ArgKeys \X ArgKeys,
     block : BlockArgs, width : WidthArgs, compare : {<<>>, <<TRUE>>},
     lowercase : {<<>>, <<TRUE>>}]

InitMain ==
    /\ PermIdle
    /\ CipherIdle
    /\ func = "none" /\ in_file \in Texts(MaxArgText) /\ in_file_2 = 0
    /\ output = <<>> /\ c_pos = 0 /\ out_file = <<>> /\ spc = "argv"
    /\ block = <<>> /\ width = <<>> /\ compare = FALSE
    /\ lines = <<>> /\ plain_lines = <<>> /\ line_pos = 0
    /\ plain_file = <<>>
    /\ lowercase = <<>> /\ key = <<>>
    /\ args \in Namespaces
    /\ err = "none"

\* the Namespace after the defaults of the else branch of get_args
with_defaults(a) ==
    [a EXCEPT !.block = <<default(a.block, BLOCK_DEFAULT)>>,
              !.width = <<default(a.width, WIDTH_DEFAULT)>>,
              !.compare = <<default(a.compare, FALSE)>>,
              !.lowercase = <<default(a.lowercase, FALSE)>>]

\* the message of parser.error in get_args, or "none"
get_args_error(a) ==
    IF a.preserve
    THEN IF a.block # <<>>
         THEN "SystemExit: -b/--block can't be used with -p/--preserve"
         ELSE IF a.width # <<>>
         THEN "SystemExit: -w/--width can't be used with -p/--preserve"
         ELSE IF a.compare # <<>>
         THEN "SystemExit: -c/--compare can't be used with -p/--preserve"
         ELSE IF a.lowercase # <<>>
         THEN "SystemExit: -l/--lowercase can't be used with -p/--preserve"
         ELSE "none"
    ELSE LET blk == default(a.block, BLOCK_DEFAULT)
             wid == default(a.width, WIDTH_DEFAULT)
         IN  IF min(blk, wid) > 0 /\ wid < blk
             THEN "SystemExit: WIDTH should be >= BLOCK"
             ELSE "none"

\* get_args(): the checks after parse_args(), and the defaults when
\* --preserve is not given
get_args ==
    /\ spc = "argv"
    /\ args' = IF args.preserve THEN args ELSE with_defaults(args)
    /\ err' = get_args_error(args)
    /\ spc' = IF get_args_error(args) = "none" THEN "main" ELSE "raised"
    /\ UNCHANGED <<perm_vars, cipher_vars, func, in_file, in_file_2, output,
                   c_pos, out_file, block, width, compare, lines,
                   plain_lines, line_pos, plain_file, lowercase, key>>

\* main(args): the keys become permutations; with --preserve, preserve hands
\* the letters of in_file to the cipher function; without it, strip is
\* called with block, width, compare and lowercase=args.lowercase, and the
\* cipher function, which takes no lowercase, raises TypeError when strip
\* calls it
main ==
    /\ spc = "main"
    /\ func' = IF args.decrypt THEN "autoperm_decipher"
                               ELSE "autoperm_encipher"
    /\ IF args.preserve
       THEN /\ key_sigma' = permutation_from_key(args.keys[1])
            /\ key_tau' = permutation_from_key(args.keys[2])
            /\ sigma' = key_sigma'
            /\ tau' = key_tau'
            /\ in_text' = input_text(in_file)
            /\ IF args.decrypt
               THEN /\ ciphertext' = in_text'
                    /\ sigma_inverse' = inverse(key_sigma')
                    /\ tau_inverse' = inverse(key_tau')
                    /\ pc' = "decipher"
                    /\ UNCHANGED plaintext
               ELSE /\ plaintext' = in_text'
                    /\ pc' = "encipher"
                    /\ UNCHANGED <<ciphertext, sigma_inverse, tau_inverse>>
            /\ spc' = "preserve_func"
            /\ UNCHANGED <<block, width, compare, lowercase, err>>
       ELSE /\ block' = args.block
            /\ width' = args.width
            /\ compare' = args.compare[1]
            /\ lowercase' = args.lowercase
            /\ strip_raises(args.block[1], args.width[1], args.compare[1],
                            args.lowercase) # "none"
            /\ err' = strip_raises(args.block[1], args.width[1],
                                   args.compare[1], args.lowercase)
            /\ spc' = "raised"
            /\ UNCHANGED <<key_sigma, key_tau, sigma, tau, in_text,
                           plaintext, ciphertext, sigma_inverse,
                           tau_inverse, pc>>
    /\ UNCHANGED <<perm_vars, decrypted, pos, in_file, in_file_2, output,
                   c_pos, out_file, lines, plain_lines, line_pos, plain_file,
                   key, args>>

NextMain ==
    \/ get_args
    \/ main
    \/ autoperm_encipher_pair
    \/ autoperm_encipher_odd
    \/ autoperm_encipher_stop
    \/ autoperm_decipher_pair
    \/ autoperm_decipher_odd
    \/ autoperm_decipher_stop
    \/ preserve_output
    \/ preserve_for
    \/ preserve_flush

\* the CipherStreamer called directly or by the program
InitStreamerMain == InitStreamer \/ InitMain

NextStreamerMain == NextStreamer \/ NextMain

SpecStreamerMain == InitStreamerMain /\ [][NextStreamerMain]_vars

\* ========================================================================
\* Properties
\* ========================================================================
\* the image of symbol x under mapping m, identity outside the key set
Image(m, x) == IF x \in DOMAIN m THEN m[x] ELSE x

\* m and k map every symbol to the same image
SameMap(m, k) == \A x \in Symbols : Image(m, x) = Image(k, x)

\* the transposition of a and b applied to x (the identity when a = b)
swap(a, b, x) == IF x = a THEN b ELSE IF x = b THEN a ELSE x

Last(s) == s[Len(s)]

\* C1: round trip. Once the decipher function has consumed the ciphertext
\* that the encipher function produced from the letter stream in_text with
\* the same keys, the deciphered stream is exactly in_text, for every
\* length (0, 1, odd, even).
C1_RoundTrip ==
    pc = "deciphered" => decrypted = in_text

\* C2: encipher pair rule. A step that consumes the complete pair (a, b)
\* appends sigma(a), tau(b) computed with the state before the step, and
\* leaves sigma' = sigma * swap(a, b) and tau' = tau * swap(a, b) (swap
\* first, then the old permutation).
C2_PairStep ==
    (pc = "encipher" /\ pos' = pos + 1 /\ Len(in_text) >= 2 * pos + 2) =>
        LET a == in_text[2 * pos + 1]
            b == in_text[2 * pos + 2]
        IN  /\ ciphertext' = ciphertext \o <<Image(sigma, a), Image(tau, b)>>
            /\ \A x \in Symbols :
                 /\ Image(sigma', x) = Image(sigma, swap(a, b, x))
                 /\ Image(tau', x) = Image(tau, swap(a, b, x))

\* C2, concrete case: sigma = cycle(A,B,C,D), tau = cycle(A,B)*cycle(C,D)
\* enciphers ABCDAB to BADCCB.
C2_Scenario ==
    (/\ pc = "enciphered"
     /\ key_sigma = ScenarioSigma /\ key_tau = ScenarioTau
     /\ in_text = <<0, 1, 2, 3, 0, 1>>)
        => ciphertext = <<1, 0, 3, 2, 2, 1>>

C2_EncipherPairRule == [][C2_PairStep]_vars /\ []C2_Scenario

\* C2 witness: the concrete stream ABCDAB has been enciphered completely,
\* its last pair (A, B) having changed both halves of the state.
C2_Witness ==
    /\ pc = "enciphered"
    /\ key_sigma = ScenarioSigma /\ key_tau = ScenarioTau
    /\ in_text = <<0, 1, 2, 3, 0, 1>>
    /\ Len(ciphertext) = 6
    /\ ~SameMap(sigma, key_sigma)

\* C3: encipher odd-length rule. The step that consumes the final unpaired
\* symbol a of an odd-length letter stream appends sigma(a) and nothing
\* else, and leaves sigma and tau as they were; so the finished ciphertext
\* has exactly as many symbols as the letter stream (no padding symbol).
C3_OddStep ==
    (pc = "encipher" /\ pos' = pos + 1 /\ Len(in_text) = 2 * pos + 1) =>
        /\ ciphertext' = Append(ciphertext, Image(sigma, Last(in_text)))
        /\ sigma' = sigma
        /\ tau' = tau

C3_Final ==
    (pc = "enciphered" /\ Len(in_text) % 2 = 1) =>
        /\ Len(ciphertext) = Len(in_text)
        /\ Last(ciphertext) = Image(sigma, Last(in_text))

C3_EncipherOddRule == [][C3_OddStep]_vars /\ []C3_Final

\* C4: decipher odd-length rule. When the ciphertext has an odd number of
\* symbols, its final unpaired symbol a is deciphered as sigma_inverse(a),
\* which is a letter (never None).
C4_DecipherOddRule ==
    (pc = "deciphered" /\ Len(ciphertext) % 2 = 1) =>
        /\ Len(decrypted) = Len(ciphertext)
        /\ Last(decrypted) = Image(sigma_inverse, Last(ciphertext))
        /\ Last(decrypted) \in Alphabet

\* the identity permutation
Id == EmptyMapping

\* C5: inverse. For a valid permutation g, g * g.inverse() equals the
\* identity and g.inverse().inverse() equals g, both under __eq__ and as
\* maps of every symbol.
C5_Inverse ==
    op = "inverse" =>
        /\ eq(mul(g, res), Id)
        /\ SameMap(mul(g, res), Id)
        /\ eq(inverse(res), g)
        /\ SameMap(inverse(res), g)

\* C5 witness: the inverse of a permutation that is not its own inverse
\* has been computed.
C5_Witness ==
    /\ op = "inverse"
    /\ ~SameMap(res, g)

\* g composed n times onto the identity: prod = Perm(); prod *= g, n times
RECURSIVE IterPow(_, _)
IterPow(m, n) == IF n = 0 THEN Id ELSE mul(IterPow(m, n - 1), m)

\* C6: power. For n >= 0, g ** n equals the identity multiplied n times by
\* g; g ** (-n) equals the inverse of g ** n; g ** 0 is the identity
\* whatever the key set of g.
C6_Power ==
    op = "pow" =>
        /\ arg >= 0 => SameMap(res, IterPow(g, arg))
        /\ arg <= 0 => SameMap(res, inverse(pow(g, 0 - arg)))
        /\ arg = 0 => SameMap(res, Id)

\* C6 witness: an odd power above 2 (the squaring recursion with the extra
\* factor) of a permutation has been computed and is not the identity.
C6_Witness ==
    /\ op = "pow"
    /\ arg >= 3 /\ arg % 2 = 1
    /\ ~SameMap(res, Id)
    /\ ~SameMap(res, g)

\* C7: composition. The key set of g * h is exactly the union of the key
\* sets of g and h, fixed points of the product included, and g * h maps
\* every symbol a to g[h[a]]. (src/perm.py: both key sets are the letters.)
C7_Compose ==
    /\ op = "mul" =>
        /\ DOMAIN res = DOMAIN g \cup DOMAIN h
        /\ \A a \in Symbols : Image(res, a) = Image(g, Image(h, a))
    /\ op = "perm_py_mul" =>
        /\ DOMAIN res = DOMAIN g \cup DOMAIN h
        /\ \A a \in Alphabet : res[a] = g[h[a]]

\* C7 witness: a product whose operands have different key sets and which
\* keeps a symbol that it maps to itself although an operand moves it.
C7_Witness ==
    /\ op = "mul"
    /\ DOMAIN g # DOMAIN h
    /\ \E a \in DOMAIN res : res[a] = a /\ Image(h, a) # a

\* C8: lookup outside the explicit domain. Applying a permutation to a
\* symbol that is not one of its keys returns the symbol and raises nothing
\* (Perm.__getitem__ of src/src/perm.py, Perm.__call__ of src/perm.py).
C8_LookupOutsideDomain ==
    (op \in {"getitem", "perm_py_call"} /\ arg \notin DOMAIN g) =>
        /\ val = arg
        /\ err = "none"

\* C9: equality. g == h is true exactly when g and h map every symbol to
\* the same image; permutations whose key sets differ only by fixed points
\* are equal, and a permutation with an added non-fixed entry is unequal.
C9_Equality ==
    op = "eq" =>
        /\ flag <=> SameMap(g, h)
        /\ (Punct \notin DOMAIN g /\ h = SetItem(g, Punct, None)) => ~flag

\* C9 witness: two permutations with different key sets have compared
\* equal.
C9_Witness ==
    /\ op = "eq"
    /\ flag
    /\ DOMAIN g # DOMAIN h
    /\ g # Id /\ h # Id

\* the symbols of a cycle
Elems(c) == {c[i] : i \in 1 .. Len(c)}

\* C10: disjoint cycle decomposition. The returned cycles are pairwise
\* disjoint and free of repeats, each has length >= 2, each is closed under
\* g in listed order, and together they hold exactly the keys of g that g
\* moves.
C10_Decomposition ==
    op \in {"dcd_done", "perm_py_dcd"} =>
        LET d == dcd_decomposition
        IN  /\ \A i \in 1 .. Len(d) :
                 /\ Len(d[i]) >= 2
                 /\ Cardinality(Elems(d[i])) = Len(d[i])
                 /\ \A j \in 1 .. Len(d[i]) :
                      Image(g, d[i][j]) = d[i][(j % Len(d[i])) + 1]
            /\ \A i, j \in 1 .. Len(d) :
                 i # j => Elems(d[i]) \cap Elems(d[j]) = {}
            /\ UNION {Elems(d[i]) : i \in 1 .. Len(d)}
                 = {a \in DOMAIN g : g[a] # a}

\* C11: reconstruction from the decomposition. The product of
\* Perm.from_cycle(c) over the cycles c that
\* g.disjoint_cycle_decomposition() returned, taken in the returned order
\* and starting from the identity, is a permutation equal to g.
C11_Reconstruction ==
    op = "reconstructed" =>
        /\ is_permutation(res)
        /\ eq(res, g)
        /\ SameMap(res, g)

\* a decomposition into two cycles has been multiplied back together
C11_Witness ==
    /\ op = "reconstructed"
    /\ Len(dcd_decomposition) = 2
    /\ res # Id

\* the last position of symbol a in the sequence c
LastIndex(c, a) ==
    CHOOSE i \in 1 .. Len(c) :
        c[i] = a /\ \A j \in (i + 1) .. Len(c) : c[j] # a

\* C12: construction from a cycle. The permutation built from a sequence
\* maps each symbol of the sequence to the symbol after its last occurrence,
\* the last position wrapping around to the first; a sequence of length 0
\* or 1, or of one symbol repeated, gives the identity; and concatenated
\* copies of a sequence without repeats give the permutation of one copy.
C12_FromCycle ==
    op \in {"from_cycle", "perm_py_init"} =>
        /\ err = "none"
        /\ \A a \in Elems(cycle) :
             Image(res, a) = cycle[(LastIndex(cycle, a) % Len(cycle)) + 1]
        /\ \A x \in Symbols \ Elems(cycle) : Image(res, x) = x
        /\ Cardinality(Elems(cycle)) <= 1 => SameMap(res, Id)
        /\ \A c \in Cycles : \A j \in 1 .. MaxCopies :
             (Cardinality(Elems(c)) = Len(c) /\ cycle = Repeat(c, j)) =>
                 SameMap(res, IF op = "from_cycle" THEN from_cycle(c)
                                                   ELSE perm_py_init(c))

\* the same, of Perm.from_cycle alone
C12_FromCycleLatest ==
    op = "from_cycle" => C12_FromCycle

\* the set of keys of mapping m is mapped one-to-one onto itself
Bijection(m) ==
    /\ \A a \in DOMAIN m : m[a] \in DOMAIN m
    /\ \A a, b \in DOMAIN m : m[a] = m[b] => a = b
    /\ \A b \in DOMAIN m : \E a \in DOMAIN m : m[a] = b

\* C14: no validation at construction. The constructor stores any mapping
\* without raising, and is_permutation() is true exactly when the stored
\* mapping is a bijection of its key set onto itself.
C14_IsPermutation ==
    /\ op \in {"init", "init_is_permutation"} =>
         err = "none" /\ res = h
    /\ op = "init_is_permutation" => (flag <=> Bijection(res))
    /\ op = "is_permutation" => (flag <=> Bijection(g))

\* is_permutation() has answered False for a mapping whose values all lie
\* among its keys (such as {1: 2, 2: 2})
C14_Witness ==
    /\ op = "init_is_permutation"
    /\ ~flag
    /\ Range(res) \subseteq DOMAIN res
    /\ res # EmptyMapping

\* C13: permutations are never changed in place. No call of inverse,
\* composition, power, lookup, equality, decomposition or construction
\* changes the mapping of the permutation it is called on, and no step of
\* autoperm_encipher or autoperm_decipher changes the mapping of a key the
\* caller passed in.
C13_Immutable ==
    [][/\ g' = g
       /\ key_sigma' = key_sigma
       /\ key_tau' = key_tau]_vars

\* a decipher run has ended with its working permutations moved away from
\* the keys the caller passed
C13_Witness ==
    /\ pc = "deciphered"
    /\ sigma # key_sigma
    /\ sigma_inverse # inverse(key_sigma)
    /\ key_sigma # Id

\* the upper case letters of a text, in order
UpperLetters(text) ==
    LET letters == SelectSeq(text, LAMBDA c : c \in (0 .. 25) \cup (32 .. 57))
    IN  [i \in 1 .. Len(letters) |->
            IF letters[i] >= 32 THEN letters[i] - 32 ELSE letters[i]]

\* the letter o in the case of the letter f
InCaseOf(f, o) ==
    IF f \in 0 .. 25 THEN (IF o >= 32 THEN o - 32 ELSE o)
    ELSE (IF o >= 32 THEN o ELSE o + 32)

\* text with its letters replaced, in order and in their case, by the
\* letters of out; the letters of text left over when out runs out are
\* dropped
RECURSIVE Aligned(_, _)
Aligned(text, out) ==
    IF text = <<>> THEN <<>>
    ELSE IF Head(text) < 0 THEN <<Head(text)>> \o Aligned(Tail(text), out)
    ELSE IF out = <<>> THEN Aligned(Tail(text), out)
    ELSE <<InCaseOf(Head(text), Head(out))>> \o
             Aligned(Tail(text), Tail(out))

C16_PreserveSurplus ==
    LET n == Len(UpperLetters(in_file))
        m == Len(output)
    IN  (spc = "preserved" /\ m > n) =>
            /\ out_file = Aligned(in_file, SubSeq(output, 1, n)) \o
                              SubSeq(output, n + 1, m)
            /\ Len(out_file) = Len(in_file) + (m - n)
            /\ err = "none"

\* extra_exes has run on the test sentence: 29 letters in place and 29 more
\* after the last punctuation mark
C16_Witness ==
    /\ spc = "preserved"
    /\ func = "extra_exes"
    /\ in_file = SphinxText
    /\ Len(out_file) = Len(SphinxText) + 29
    /\ out_file[Len(SphinxText)] = Mark(7)
    /\ out_file[Len(out_file)] = X

\* C17: too few letters in preserve mode. When the transform yields m
\* letters for a text with n > m letters, the first m letters of the text
\* are replaced as usual, every character that is not a letter is written
\* in order, before and after the transform runs out, and the last n - m
\* letters of the text are dropped.
C17_PreserveFlush ==
    LET n == Len(UpperLetters(in_file))
        m == Len(output)
    IN  (spc = "preserved" /\ m < n) =>
            /\ out_file = Aligned(in_file, output)
            /\ SelectSeq(out_file, LAMBDA c : c < 0)
                 = SelectSeq(in_file, LAMBDA c : c < 0)
            /\ Len(SelectSeq(out_file, LAMBDA c : c >= 0)) = m
            /\ err = "none"

\* not_enough_exes has run on the test sentence: three letters written and
\* all fourteen characters that are not letters
C17_Witness ==
    /\ spc = "preserved"
    /\ func = "not_enough_exes"
    /\ in_file = SphinxText
    /\ Len(out_file) = 3 + (Len(SphinxText) - 29)
    /\ out_file[Len(out_file)] = Mark(7)

\* the letters s in groups of n with one space between groups and none at
\* either end
Row(s, n) ==
    [p \in 1 .. (IF s = <<>> THEN 0 ELSE Len(s) + ((Len(s) - 1) \div n)) |->
        IF p % (n + 1) = 0 THEN Space ELSE s[p - (p \div (n + 1))]]

\* the letters a text holds, each in upper case, whatever case it was in
Capitals(s) == [i \in 1 .. Len(s) |-> IF s[i] >= 32 THEN s[i] - 32 ELSE s[i]]

\* the block and width a strip call runs with
Blk == IF block = <<>> THEN BLOCK_DEFAULT ELSE block[1]
Wid == IF width = <<>> THEN WIDTH_DEFAULT ELSE width[1]

\* "SPHIN XOFBL ACKQU ARTZJ UDGEM YVOW\n"
SphinxOneLine ==
    <<19, 16, 8, 9, 14, Space, 3, 15, 6, 1, 12, Space, 0, 2, 11, 17, 21,
      Space, 0, 18, 20, 25, 10, Space, 21, 4, 7, 5, 13, Space, 24, 22, 15,
      23, Newline>>

\* C19: strip mode on one line. With block = N > 0 and width <= 0 (and no
\* compare), strip mode writes exactly one line: the letters the transform
\* yields for the upper-cased letters of the input, in upper case, in
\* groups of N with one space between groups and none at the end, then one
\* newline. The test sentence with block 5 under the identity transform
\* gives "SPHIN XOFBL ACKQU ARTZJ UDGEM YVOW\n".
C19_StripOneLine ==
    /\ (spc = "stripped" /\ ~compare /\ Blk > 0 /\ Wid <= 0) =>
         /\ output \in func_outputs(func, UpperLetters(in_file))
         /\ out_file = Append(Row(Capitals(output), Blk), Newline)
         /\ err = "none"
    /\ (/\ spc = "stripped" /\ ~compare /\ in_file = SphinxText
        /\ func = "unchanged" /\ block = <<5>> /\ width = <<0>>) =>
         out_file = SphinxOneLine

\* the test sentence has been written on one line in blocks of five
C19_Witness ==
    /\ spc = "stripped" /\ ~compare
    /\ in_file = SphinxText
    /\ func = "unchanged"
    /\ block = <<5>> /\ width = <<0>>
    /\ Len(out_file) = 35

\* the lines of a written file: the characters before each newline
RECURSIVE WrittenLines(_)
WrittenLines(file) ==
    IF file = <<>> THEN <<>>
    ELSE LET k == CHOOSE i \in 1 .. Len(file) + 1 :
                      /\ i = Len(file) + 1 \/ file[i] = Newline
                      /\ \A j \in 1 .. (i - 1) : file[j] # Newline
         IN  <<SubSeq(file, 1, k - 1)>> \o
                 WrittenLines(SubSeq(file, k + 1, Len(file)))

\* the number of blocks on a written line
Blocks(line) ==
    IF line = <<>> THEN 0
    ELSE 1 + Cardinality({p \in 1 .. Len(line) : line[p] = Space})

\* "SPHIN XOFBL\nACKQU ARTZJ\nUDGEM YVOW\n"
SphinxTwoPerLine ==
    <<19, 16, 8, 9, 14, Space, 3, 15, 6, 1, 12, Newline, 0, 2, 11, 17, 21,
      Space, 0, 18, 20, 25, 10, Newline, 21, 4, 7, 5, 13, Space, 24, 22,
      15, 23, Newline>>

\* C20: blocks per line. With block > 0 and width >= block (and no
\* compare), strip mode puts exactly (width + 1) // (block + 1) blocks on
\* every line but possibly the last, no written line is longer than width
\* characters, spaces counted, and the lines hold the output letters in
\* order in blocks of block letters. With block 5 the test sentence is laid
\* out two blocks to a line for every width from 11 to 16, and differently
\* for widths 10 and 17.
C20_BlocksPerLine ==
    LET per == (Wid + 1) \div (Blk + 1)
        s == Capitals(output)
        written == WrittenLines(out_file)
        two_per_line == SphinxTwoPerLine
    IN  /\ (spc = "stripped" /\ ~compare /\ Blk > 0 /\ Wid >= Blk) =>
             /\ err = "none"
             /\ per >= 1
             /\ Len(written) = (Len(s) + per * Blk - 1) \div (per * Blk)
             /\ \A j \in 1 .. Len(written) :
                  /\ Len(written[j]) <= Wid
                  /\ j < Len(written) => Blocks(written[j]) = per
                  /\ written[j] =
                       Row(SubSeq(s, (j - 1) * per * Blk + 1,
                                  IF j * per * Blk <= Len(s)
                                  THEN j * per * Blk ELSE Len(s)), Blk)
             /\ out_file # <<>> => out_file[Len(out_file)] = Newline
        /\ (/\ spc = "stripped" /\ ~compare /\ in_file = SphinxText
            /\ func = "unchanged" /\ block = <<5>>) =>
             /\ width[1] \in 11 .. 16 => out_file = two_per_line
             /\ width[1] \in {10, 17} => out_file # two_per_line

\* the test sentence has been written two blocks to a line at width 11
C20_Witness ==
    /\ spc = "stripped" /\ ~compare
    /\ in_file = SphinxText
    /\ func = "unchanged"
    /\ block = <<5>> /\ width = <<11>>
    /\ Len(WrittenLines(out_file)) = 3

\* C18: round trip in preserve mode. Enciphering a text in preserve mode and
\* deciphering the result in preserve mode with the same keys runs without
\* an exception and writes exactly the original text, for texts with an
\* even and with an odd number of letters.
C18_PreserveRoundTrip ==
    /\ err = "none"
    /\ (pc = "deciphered" /\ spc = "preserved") => out_file = plain_file

\* C21: a strip call with block > 0, width > 0 and width < block (after the
\* defaults) ends in an error before any character is written, the
\* ValueError of get_lines unless the transform refused the call first, and
\* block and width stay as given; with block <= 0 or width <= 0 that
\* ValueError is never raised. The program makes the same test on its
\* arguments before it opens the cipher
C21_WidthBelowBlock ==
    /\ [][get_args /\ ~args.preserve =>
            /\ args'.block =
                   IF args.block = <<>> THEN <<BLOCK_DEFAULT>> ELSE args.block
            /\ args'.width =
                   IF args.width = <<>> THEN <<WIDTH_DEFAULT>> ELSE args.width
            /\ IF /\ args'.block[1] > 0 /\ args'.width[1] > 0
                  /\ args'.width[1] < args'.block[1]
               THEN /\ err' = "SystemExit: WIDTH should be >= BLOCK"
                    /\ spc' = "raised" /\ out_file' = <<>>
               ELSE err' = "none" /\ spc' = "main"]_vars
    /\ [][call_strip =>
            IF Blk > 0 /\ Wid > 0 /\ Wid < Blk
            THEN /\ spc' = "raised"
                 /\ out_file' = <<>>
                 /\ block' = block /\ width' = width
                 /\ lowercase = <<>> => err' = WidthError
            ELSE err' # WidthError]_vars
    /\ [](err = WidthError => spc = "raised" /\ out_file = <<>>)

C21_Witness ==
    /\ err = WidthError /\ spc = "raised"
    /\ block = <<2>> /\ width = <<1>> /\ in_file # <<>> /\ out_file = <<>>

\* C22: a preserve call that is given a block or a width ends in the
\* ValueError of __call__ with nothing read and nothing written, and preserve
\* only ever runs with neither. The program refuses --preserve with --block
\* or --width when it reads its arguments
C22_PreserveRejectsFormat ==
    /\ [][get_args /\ args.preserve /\
            (args.block # <<>> \/ args.width # <<>>) =>
            /\ err' \in
                 {"SystemExit: -b/--block can't be used with -p/--preserve",
                  "SystemExit: -w/--width can't be used with -p/--preserve"}
            /\ spc' = "raised"
            /\ in_file_2' = 0 /\ output' = <<>> /\ out_file' = <<>>]_vars
    /\ [][call_preserve /\ (block # <<>> \/ width # <<>>) =>
            /\ err' = PreserveError /\ spc' = "raised"
            /\ in_file_2' = 0 /\ output' = <<>> /\ out_file' = <<>>]_vars
    /\ [](spc \in {"preserve_for", "preserved"} =>
            block = <<>> /\ width = <<>>)
    /\ [](err = PreserveError =>
            spc = "raised" /\ in_file_2 = 0 /\ out_file = <<>>)

C22_Witness ==
    /\ err = PreserveError /\ spc = "raised"
    /\ block = <<>> /\ width = <<2>> /\ in_file # <<>> /\ out_file = <<>>

\* the place of a capital in the alphabet, from 0, and the capital at a place
Rank(c) == IF c = 3 THEN 23 ELSE IF c \in 4 .. 23 THEN c - 1 ELSE c
Letter(r) == IF r = 23 THEN 3 ELSE IF r \in 3 .. 22 THEN r + 1 ELSE r

\* the items of a sequence, each kept where it occurs first
FirstOccurrences(t) ==
    LET firsts == {i \in 1 .. Len(t) : \A j \in 1 .. i - 1 : t[j] # t[i]}
    IN  [n \in 1 .. Cardinality(firsts) |->
            t[CHOOSE i \in firsts :
                  Cardinality({j \in firsts : j <= i}) = n]]

\* the letter of a set that comes first after c in the alphabet, going round
\* from Z to A
NextAfter(S, c) ==
    CHOOSE d \in S : \A e \in S :
        (Rank(d) - Rank(c) + 25) % 26 <= (Rank(e) - Rank(c) + 25) % 26

\* the permutation the claim describes for a key
KeyedAlphabet(r, key_text) ==
    LET u == FirstOccurrences(UpperLetters(key_text))
        n == Len(u)
        unused == (0 .. 25) \ Range(u)
    IN  /\ DOMAIN r = 0 .. 25
        /\ Bijection(r)
        /\ \A i \in 1 .. n : r[Letter(i - 1)] = u[i]
        /\ \A i \in n + 1 .. 26 : r[Letter(i - 1)] \in unused
        /\ n \in 1 .. 25 => r[Letter(n)] = NextAfter(unused, u[n])
        /\ \A i \in n + 1 .. 25 :
               r[Letter(i)] = NextAfter(unused, r[Letter(i - 1)])
        /\ n = 0 => \A c \in 0 .. 25 : r[c] = c
        /\ (n = 1 /\ Len(key_text) = 1) =>
               \A c \in 0 .. 25 :
                   r[c] = Letter((Rank(c) + Rank(u[1])) % 26)

\* "LINUSTORVADEFGHJKMPQWXYZBC"
Linus ==
    <<11, 8, 13, 20, 18, 19, 14, 17, 21, 0, 3, 4, 5, 6, 7, 9, 10, 12, 15, 16,
      22, 23, 24, 25, 1, 2>>

\* C25: permutation_from_key(key) drops what is not a letter and the case,
\* keeps each key letter where it occurs first, makes these the images of
\* A, B, C, ... in order and gives the other letters the unused letters in
\* alphabetical order from the first one after the last key letter, going
\* round; the result is a bijection of the 26 letters, the identity for a key
\* without letters, the shift by i for the single letter at place i, and
\* LINUSTORVADEFGHJKMPQWXYZBC for "linustorvalds"
C25_PermutationFromKey ==
    spc = "permutation_from_key" =>
        /\ KeyedAlphabet(res, key)
        /\ key = linustorvalds =>
               \A i \in 1 .. 26 : res[Letter(i - 1)] = Letter(Linus[i])

\* the characters "i", "o" and ":" of the prefixes
PrefixI == c_lower(9)
PrefixO == c_lower(15)
Colon == Mark(9)

\* line i of a list of formatted lines as it is written, empty when the list
\* is shorter
Formatted(ls, i) == IF i <= Len(ls) THEN upper(strip(join(ls[i]))) ELSE <<>>

\* the first n rows of compare mode: "i:" and the source line, "o:" and the
\* output line, an empty line
RECURSIVE CompareRows(_)
CompareRows(n) ==
    IF n = 0 THEN <<>>
    ELSE CompareRows(n - 1) \o
         <<PrefixI, Colon>> \o Formatted(plain_lines, n) \o <<Newline>> \o
         <<PrefixO, Colon>> \o Formatted(lines, n) \o <<Newline, Newline>>

\* C23: strip with compare writes, for every line index, the formatted source
\* line after "i:", the formatted output line after "o:" and an empty line;
\* a side that has no line at an index is written empty, and no error is
\* raised when the transform yields fewer or more lines than the source
C23_Compare ==
    /\ (compare /\ lowercase = <<>>) => err # "TypeError"
    /\ (compare /\ spc = "stripped") =>
           out_file = CompareRows(max(Len(lines), Len(plain_lines)))

\* C24: strip takes a lowercase setting that the transform never sees: a call
\* that passes it is not refused by the transform, by a direct call or from
\* the program, and what it writes is in lower case when the setting is true
\* and in upper case otherwise
C24_Lowercase ==
    /\ [][call_strip /\ lowercase # <<>> => err' # "TypeError"]_vars
    /\ [][main /\ ~args.preserve => err' # "TypeError"]_vars
    /\ [](spc = "stripped" /\ ~compare =>
            IF lowercase = <<TRUE>> THEN out_file = lower(out_file)
            ELSE out_file = upper(out_file))

\* the transforms that yield one letter for each letter they are given
LetterForLetter == {"unchanged", "to_upper", "to_lower", "to_random", "to_exes"}

\* C29: on an input file without characters and a letter-for-letter
\* transform, preserve writes nothing, and strip (without compare) writes one
\* newline when width <= 0 and nothing when width > 0, whatever the block
C29_EmptyInput ==
    (in_file = <<>> /\ func \in LetterForLetter) =>
        /\ spc \in {"preserve_for", "preserved", "raised"} => out_file = <<>>
        /\ (spc = "stripped" /\ ~compare) =>
               out_file = IF Wid <= 0 THEN <<Newline>> ELSE <<>>

\* strip has ended on an empty file with a width that wraps
C29_Witness ==
    /\ in_file = <<>> /\ func = "to_random" /\ ~compare
    /\ spc = "stripped" /\ block = <<0>> /\ width = <<2>> /\ out_file = <<>>

\* m applied n times to a
RECURSIVE Applied(_, _, _)
Applied(m, n, a) == IF n = 0 THEN a ELSE Image(m, Applied(m, n - 1, a))

\* the symbols g moves that are the smallest of their cycle
Leaders(m) ==
    {a \in DOMAIN m : /\ m[a] # a
                      /\ \A k \in 1 .. Cardinality(DOMAIN m) :
                             Applied(m, k, a) >= a}

\* the cycle of a under m, from a
CycleFrom(m, a) ==
    LET len == CHOOSE k \in 1 .. Cardinality(DOMAIN m) :
                   /\ Applied(m, k, a) = a
                   /\ \A j \in 1 .. k - 1 : Applied(m, j, a) # a
    IN  [i \in 1 .. len |-> Applied(m, i - 1, a)]

\* a cycle as "(a b c)"
RECURSIVE Spaced(_)
Spaced(c) == IF Len(c) <= 1 THEN c ELSE <<Head(c), Space>> \o Spaced(Tail(c))

\* the cycles led by the symbols of L, by growing leader
RECURSIVE CanonicalCycles(_, _)
CanonicalCycles(m, L) ==
    IF L = {} THEN <<>>
    ELSE LET a == CHOOSE x \in L : \A y \in L : x <= y
         IN  <<LParen>> \o Spaced(CycleFrom(m, a)) \o <<RParen>> \o
             CanonicalCycles(m, L \ {a})

\* "Id" for a permutation that moves nothing, else the cycles
Canonical(m) ==
    IF Leaders(m) = {} THEN <<9, c_lower(4)>>
    ELSE CanonicalCycles(m, Leaders(m))

\* C26: str(g) of a valid permutation is "Id" when g moves nothing and else
\* its cycles of more than one symbol, each from its smallest symbol, by
\* growing smallest symbol, whatever order the set gives its keys in
C26_Str ==
    (op = "str" /\ Bijection(g)) => rendered = Canonical(g)

\* m maps the symbols one-to-one onto the symbols
BijectionOfAlphabet(m) ==
    /\ \A x \in Symbols : Image(m, x) \in Symbols
    /\ \A x, y \in Symbols : Image(m, x) = Image(m, y) => x = y

\* the pairs the loop that has taken n chunks of text has processed
Pairs(text, n) == IF 2 * n <= Len(text) THEN n ELSE n - 1

\* C30: while and after autoperm_encipher runs on valid keys, sigma and tau
\* are bijections of the alphabet, valid for is_permutation(), and
\* sigma * tau.inverse() is sigma_0 * tau_0.inverse(): a symbol that tau_0
\* and tau send to the same place is sent to the same place by sigma_0 and
\* sigma
C30_QuotientInvariant ==
    pc \in {"encipher", "enciphered"} =>
        /\ BijectionOfAlphabet(sigma) /\ BijectionOfAlphabet(tau)
        /\ is_permutation(sigma) /\ is_permutation(tau)
        /\ SameMap(mul(sigma, inverse(tau)), mul(key_sigma, inverse(key_tau)))
        /\ \A y, z \in Symbols :
               Image(tau, y) = Image(key_tau, z) =>
                   Image(sigma, y) = Image(key_sigma, z)

\* two pairs have been enciphered and the keys have changed
C30_Witness ==
    /\ pc = "enciphered" /\ Pairs(plaintext, pos) >= 1
    /\ ~SameMap(sigma, key_sigma) /\ ~SameMap(tau, key_tau)
    /\ ~SameMap(key_sigma, key_tau)

\* what the permutation that started as m0 maps x to after the first k pairs
\* of text were composed onto it on the right
RECURSIVE EncMap(_, _, _, _)
EncMap(m0, text, k, x) ==
    IF k = 0 THEN Image(m0, x)
    ELSE EncMap(m0, text, k - 1, swap(text[2 * k - 1], text[2 * k], x))

\* m undoes what m0 has become after k pairs of text
InverseAfter(m, m0, text, k) ==
    \A x \in Symbols : Image(m, EncMap(m0, text, k, x)) = x

\* C27: running inverse. While decipher runs on what encipher produced from
\* the same keys, sigma_inverse and tau_inverse after k pairs are the
\* inverses of encipher's sigma and tau after k pairs; they are the inverses
\* of the keys at the start, and each pair composes the transposition of the
\* two plaintext letters onto them on the left
C27_RunningInverse ==
    /\ [](pc = "encipher" =>
            \A x \in Symbols :
                /\ Image(sigma, x) =
                       EncMap(key_sigma, plaintext, Pairs(plaintext, pos), x)
                /\ Image(tau, x) =
                       EncMap(key_tau, plaintext, Pairs(plaintext, pos), x))
    /\ [](pc \in {"decipher", "deciphered"} =>
            /\ InverseAfter(sigma_inverse, key_sigma, plaintext,
                            Pairs(ciphertext, pos))
            /\ InverseAfter(tau_inverse, key_tau, plaintext,
                            Pairs(ciphertext, pos)))
    /\ [][pc = "decipher" /\ pc' = "decipher" /\ Len(decrypted') =
              Len(decrypted) + 2 =>
            \A x \in Symbols :
                /\ Image(sigma_inverse', x) =
                       swap(decrypted'[Len(decrypted) + 1], Last(decrypted'),
                            Image(sigma_inverse, x))
                /\ Image(tau_inverse', x) =
                       swap(decrypted'[Len(decrypted) + 1], Last(decrypted'),
                            Image(tau_inverse, x))]_vars

\* decipher has processed a pair of two different letters
C27_Witness ==
    /\ pc = "decipher" /\ pos >= 1 /\ Len(decrypted) >= 2
    /\ decrypted[1] # decrypted[2]
    /\ ~SameMap(key_sigma, Id)

\* a sequence without repeats, or copies of one, one after the other
RepeatFreeCopies(c) ==
    \E n \in 1 .. Len(c) :
        /\ Len(c) % n = 0
        /\ \A i, j \in 1 .. n : c[i] = c[j] => i = j
        /\ \A i \in 1 .. Len(c) : c[i] = c[((i - 1) % n) + 1]

\* C28: closure. The inverse of a valid permutation, the product of two,
\* every power of one with an exponent of either sign, from_cycle of a
\* sequence without repeats or of copies of one, and every outcome of
\* Perm.random on a domain are valid for is_permutation(), bijections of their
\* key sets; the key set of Perm.random(domain) is the domain
C28_Closure ==
    /\ (op \in {"inverse", "pow"} /\ is_permutation(g)) =>
           is_permutation(res) /\ Bijection(res)
    /\ (op = "mul" /\ is_permutation(g) /\ is_permutation(h)) =>
           is_permutation(res) /\ Bijection(res)
    /\ (op = "from_cycle" /\ (cycle = <<>> \/ RepeatFreeCopies(cycle))) =>
           is_permutation(res) /\ Bijection(res)
    /\ op = "random" =>
           /\ is_permutation(res) /\ Bijection(res)
           /\ DOMAIN res = {cycle[i] : i \in 1 .. Len(cycle)}

\* Perm.random has returned a permutation of three letters that moves each
C28_Witness ==
    /\ op = "random" /\ Len(cycle) = 3
    /\ \A a \in DOMAIN res : res[a] # a

====
